---- MODULE Spec2Model ----
(***************************************************************************)
(* State-machine model of the cross-venue arbitrage engine                 *)
(* (seelffff/mexc-binance): the TradeExecutor ledger and order sequences,  *)
(* the ArbitrageDetector tick handler and gate, the timeout sweep and the  *)
(* shutdown sweep.                                                         *)
(*                                                                         *)
(* One action of the model is one macrotask of the Node.js event loop: a   *)
(* WebSocket message, a timer firing, or the arrival of the answer to a    *)
(* remote call, together with everything the resumed handler does until    *)
(* it next awaits a remote call or a timer.  An `await` of a promise that  *)
(* is already settled only yields to the microtask queue, which is drained *)
(* before the next macrotask, so it does not end an action.                *)
(*                                                                         *)
(* Numbers: JavaScript doubles are modelled in fixed point.  Prices are    *)
(* integers; percentages are integers in units of 1/PctScale percent;      *)
(* USD amounts are integers in units of 1/PctScale USD.                    *)
(***************************************************************************)
EXTENDS Integers, Sequences, FiniteSets, Bags, TLC

\* ------------------------------------------------------------------ bounds
\* Per specification: the number of clock steps (of SweepIntervalMs each) the
\* model lets pass, and the number of openPositionPair calls that get past
\* the single-flight guard.
MaxStepsSim == 2
MaxOpensSim == 2
MaxStepsLive == 3
MaxOpensLive == 1
MaxStepsRace == 6
MaxOpensRace == 3
MaxStepsTimeout == 3
MaxOpensTimeout == 2
MaxStepsFail == 2
MaxOpensFail == 2
MaxStepsClose == 2
MaxOpensClose == 1
MaxStepsForever == 4
MaxOpensForever == 1
MaxStepsScan == 1
MaxOpensScan == 2
MaxStepsPoor == 5
MaxOpensPoor == 2
MaxStepsShaky == 2
MaxOpensShaky == 1
MaxStepsCapped == 2
MaxOpensCapped == 3
MaxStepsStartup == 1
MaxOpensStartup == 2
MaxStepsHalt == 6
MaxOpensHalt == 2
\* Number of remote calls the venues are allowed to fail.
MaxFailures == 1
MaxFailuresShaky == 2
\* Number of closePositionPair calls made from outside the three loops.
MaxDirect == 2
MaxStepsClient == 1
MaxStepsDepth == 2
MaxOpensDepth == 2
MaxOpensClient == 1
\* Sockets one venue client creates in a run.
MaxSockets == 2

\* ------------------------------------------------------- program constants
MIN_ORDER_INTERVAL_MS == 2000
SweepIntervalMs == 500
InterLegDelayMs == 500
DefaultDepthUSD == 10000
SafetyCapUSD == 100
\* Resolution of the fixed-point arithmetic standing in for doubles.
PctScale == 10000
\* Resolution of order-book quantities (units per coin).
QtyScale == 100

\* First clock value: Date.now() is positive from the start.
StartTime == SweepIntervalMs
MaxClock == StartTime + (MaxStepsSim + MaxStepsLive + MaxStepsTimeout + MaxStepsRace
                            + MaxStepsFail + MaxStepsClose + MaxStepsForever + MaxStepsScan + MaxStepsPoor
                            + MaxStepsShaky + MaxStepsCapped + MaxStepsStartup
                            + MaxStepsHalt + MaxStepsClient + MaxStepsDepth)
                           * SweepIntervalMs
\* A timeoutAt of now + 0 * 1000 for the zero timeout (a deliberately wrong
\* variant): every clock value has reached it.
InfinityReached == StartTime
\* timeoutAt = Infinity: larger than every clock value, so now >= Infinity is false.
Infinity == MaxClock + SweepIntervalMs

\* -------------------------------------------------------------- the venues
Venues == {"binance", "mexc"}
Other(v) == IF v = "binance" THEN "mexc" ELSE "binance"
Symbols == {"BTCUSDT"}
\* MexcFutures.toMexcFormat / toCommonFormat: 'USDT' <-> '_USDT'.
toMexcFormat(sym) == IF sym = "BTCUSDT" THEN "BTC_USDT" ELSE sym
toCommonFormat(sym) == IF sym = "BTC_USDT" THEN "BTCUSDT"
                       ELSE IF sym = "SOL_USDT" THEN "SOLUSDT" ELSE sym
VenueSymbol(v, sym) == IF v = "mexc" THEN toMexcFormat(sym) ELSE sym

\* bidQty / askQty are optional: a quote without depth carries undefined.
NoQty == -1
\* priceCache.get of a symbol not yet cached.
NoPrice == [bid |-> 0, ask |-> 0, bidQty |-> NoQty, askQty |-> NoQty]
\* The book tops the feeds deliver (bid < ask on one venue); no depth is sent.
QuoteLow == [bid |-> 1000, ask |-> 1001, bidQty |-> NoQty, askQty |-> NoQty]
QuoteNear == [bid |-> 1005, ask |-> 1006, bidQty |-> NoQty, askQty |-> NoQty]
QuoteHigh == [bid |-> 1050, ask |-> 1051, bidQty |-> NoQty, askQty |-> NoQty]
Quotes == {QuoteLow, QuoteNear, QuoteHigh}
\* The high quote with a visible depth of 0.05 and of 20 units on either side.
QuoteThin == [bid |-> 1050, ask |-> 1051, bidQty |-> 5, askQty |-> 5]
QuoteDeep == [bid |-> 1050, ask |-> 1051, bidQty |-> 2000, askQty |-> 2000]

\* The WebSocket side of a venue client before connectWebSocket: ws is the
\* socket the client holds (NoSocket for null), sockets the state of every
\* socket it has created, timers the reconnect timeouts pending; the rest is
\* bookkeeping: whether disconnect() was the application's last call, and
\* whether a socket was created by a timeout, or a tick delivered, since the
\* application's last call.
NoSocket == 0
NoClient == [ws |-> NoSocket, sockets |-> << >>, timers |-> 0,
             disconnected |-> FALSE, reopened |-> FALSE, delivered |-> FALSE]

\* What the observer of the scanner holds before the first tick.
NoOpp == [buyExchange |-> "none", sellExchange |-> "none", buyPrice |-> 0,
          sellPrice |-> 0, spreadPercent |-> 0, profitPercent |-> 0]
NoSides == [buyExchange |-> "none", sellExchange |-> "none", buyPrice |-> 0,
            sellPrice |-> 0, spreadPercent |-> 0]
NoTick == [exchange |-> "none", price1 |-> NoPrice, price2 |-> NoPrice,
           updated |-> FALSE, chosen |-> NoSides, gated |-> FALSE,
           emitted |-> FALSE, opportunity |-> NoOpp]

\* Inputs of calculateExecutionPrice called on its own: requested notional in
\* USD, quoted price, visible quantity (1/QtyScale coin, or absent).
ProbeUsd == {100, 1000, DefaultDepthUSD}
ProbePrices == {100, 139, 1000}
ProbeQtys == {NoQty, 0, 50, 100, 200, 500, 1000, 2000, 5000, 10000, 20000, 100000}
NoProbe == [requestedUsd |-> 0, basePrice |-> 0, availableQty |-> NoQty,
            result |-> [avgPrice |-> 0, slippageCost |-> 0, details |-> "none"]]

\* ----------------------------------------------------------- configuration
Configs ==
  [ enabled : {TRUE},
    testMode : BOOLEAN,
    maxOpenPositions : {1, 2},
    positionSizeUSD : {100, 150},
    positionTimeoutSeconds : {0, 1},
    closeOnSpreadConvergence : {TRUE},
    priceConvergencePercent : {PctScale \div 5, PctScale \div 2, 5 * PctScale},
    minSpreadPercent : {PctScale},
    takerBinance : {0, PctScale \div 25},
    takerMexc : {0, PctScale \div 50},
    slippagePercent : {PctScale \div 10, 10 * PctScale},
    testBalanceUSD : {150 * PctScale, 500 * PctScale} ]
\* The configuration most specifications run with: legs of $100, a starting
\* balance of $500, convergence at 0.5 %, slippage 0.1 %.
DefaultTuning(cfg) ==
  /\ cfg.positionSizeUSD = 100
  /\ cfg.testBalanceUSD = 500 * PctScale
  /\ cfg.priceConvergencePercent = PctScale \div 2
  /\ cfg.slippagePercent = PctScale \div 10

VARIABLES
  config,             \* Config, fixed at construction
  env,                \* what the venues and the operator may do (fixed)
  now,                \* Date.now()
  priceCache,         \* venue -> venue symbol -> TickerPrice (the clients' caches)
  pairs,              \* the PositionPair objects ever inserted, by id
  openPositions,      \* keys of the openPositions Map
  closedPositions,    \* closedPositions array (references to pair objects)
  currentBalance,
  initialBalance,
  testStats,
  tradingErrors,
  skippedOpportunities,
  pendingOrders,
  lastOrderTime,
  tasks,              \* suspended async sequences (a bag of frames)
  phase,              \* "starting", "fetching", "failed" (startup), "running",
                      \* "closing" (shutdown sweep), "stopped"
  sweepDue,           \* the 500 ms interval has elapsed, its callback not yet run
  \* ---- observers (a mock execution capability and bookkeeping for the properties)
  orderCalls,         \* id -> operation -> number of createMarketOrder calls
  skipCalls,          \* reasons recordSkippedOpportunity was invoked with
  opensStarted,       \* openPositionPair calls past the guard (the pair ids)
  inserted,           \* number of Map.set calls (insertion order)
  failuresLeft,
  lastSweep,          \* the last finished timeout sweep
  reportOpen,         \* the shutdown sweep's snapshot and the map at its report
  directCalls,        \* ids closePositionPair was called with from outside the loops
  lastTick,           \* the last tick the scanner handled and what it did with it
  probe,              \* last calculateExecutionPrice call made on its own: inputs, result
  clients             \* venue -> the WebSocket side of the venue client

vars == << config, env, now, priceCache, pairs, openPositions, closedPositions,
           currentBalance, initialBalance, testStats, tradingErrors,
           skippedOpportunities, pendingOrders, lastOrderTime, tasks, phase,
           sweepDue, orderCalls, skipCalls, opensStarted, inserted,
           failuresLeft, lastSweep, reportOpen, directCalls, lastTick, probe,
           clients >>

Ids == 1..env.maxOpens
NoId == 0
OrderOps == {"OPEN_LONG", "OPEN_SHORT", "CLOSE_LONG", "CLOSE_SHORT"}

\* ------------------------------------------------------------- arithmetic
Abs(x) == IF x < 0 THEN 0 - x ELSE x
Min(a, b) == IF a < b THEN a ELSE b
\* (num / den) * 100, in units of 1/PctScale percent.
Pct(num, den) == (num * 100 * PctScale) \div den

\* A fill simulation that prices a partial fill wholly at the penalty price (a
\* deliberately wrong variant).
calculateExecutionPriceWorst(requestedUsd, basePrice, availableQty) ==
  LET realQty == IF availableQty # NoQty THEN availableQty
                 ELSE (DefaultDepthUSD * QtyScale) \div basePrice
      realDepthUsd == realQty * basePrice
      requested == requestedUsd * QtyScale
  IN  IF realDepthUsd >= requested
        THEN [avgPrice |-> basePrice, slippageCost |-> 0, details |-> "Full Fill"]
        ELSE LET penaltyPrice == (basePrice * (100 * PctScale + config.slippagePercent))
                                 \div (100 * PctScale)
                 idealCost == (requestedUsd * PctScale) \div basePrice
                 realCost == (requestedUsd * PctScale) \div penaltyPrice
             IN  [avgPrice |-> penaltyPrice,
                  slippageCost |-> (idealCost - realCost) * basePrice,
                  details |-> "Partial"]

\* calculateExecutionPrice: avgPrice and slippageCost of a simulated fill.
\* availableQty is in units of 1/QtyScale coin, depth in units of 1/QtyScale USD,
\* coin amounts of the cost in units of 1/PctScale coin. Every quotient is
\* rounded to the precision of the representation, as the program's are: the
\* default quantity 10000 / basePrice times basePrice can fall short of 10000.
calculateExecutionPrice(requestedUsd, basePrice, availableQty) ==
  LET realQty == IF availableQty # NoQty THEN availableQty
                 ELSE (DefaultDepthUSD * QtyScale) \div basePrice
      realDepthUsd == realQty * basePrice
      requested == requestedUsd * QtyScale
  IN  IF realDepthUsd >= requested
        THEN [avgPrice |-> basePrice, slippageCost |-> 0, details |-> "Full Fill"]
        ELSE LET filledReal == realDepthUsd
                 filledSlippage == requested - realDepthUsd
                 penaltyPrice == (basePrice * (100 * PctScale + config.slippagePercent))
                                 \div (100 * PctScale)
                 avgPrice == (filledReal * basePrice + filledSlippage * penaltyPrice)
                             \div requested
                 idealCost == (requestedUsd * PctScale) \div basePrice
                 realCost == (requestedUsd * PctScale) \div avgPrice
                 slippageCost == (idealCost - realCost) * basePrice
             IN  [avgPrice |-> avgPrice, slippageCost |-> slippageCost,
                  details |-> "Partial"]

\* checkPriceConvergence
checkPriceConvergence(price1, price2) ==
  Pct(Abs(price1 - price2), Min(price1, price2)) <= config.priceConvergencePercent

\* ------------------------------------------------------ the executor state
\* The handlers are written as functions of a record of the mutable state, so
\* that one action can run a handler through all its synchronous steps.
St ==
  [ pairs |-> pairs, openPositions |-> openPositions,
    closedPositions |-> closedPositions, currentBalance |-> currentBalance,
    testStats |-> testStats, tradingErrors |-> tradingErrors,
    skippedOpportunities |-> skippedOpportunities,
    pendingOrders |-> pendingOrders, lastOrderTime |-> lastOrderTime,
    tasks |-> tasks, phase |-> phase, orderCalls |-> orderCalls,
    skipCalls |-> skipCalls, opensStarted |-> opensStarted,
    inserted |-> inserted, failuresLeft |-> failuresLeft,
    lastSweep |-> lastSweep, reportOpen |-> reportOpen, lastTick |-> lastTick,
    inBounds |-> TRUE ]

Apply(s) ==
  /\ s.inBounds
  /\ pairs' = s.pairs
  /\ openPositions' = s.openPositions
  /\ closedPositions' = s.closedPositions
  /\ currentBalance' = s.currentBalance
  /\ testStats' = s.testStats
  /\ tradingErrors' = s.tradingErrors
  /\ skippedOpportunities' = s.skippedOpportunities
  /\ pendingOrders' = s.pendingOrders
  /\ lastOrderTime' = s.lastOrderTime
  /\ tasks' = s.tasks
  /\ phase' = s.phase
  /\ orderCalls' = s.orderCalls
  /\ skipCalls' = s.skipCalls
  /\ opensStarted' = s.opensStarted
  /\ inserted' = s.inserted
  /\ failuresLeft' = s.failuresLeft
  /\ lastSweep' = s.lastSweep
  /\ reportOpen' = s.reportOpen
  /\ lastTick' = s.lastTick

\* A suspended async sequence: an open sequence, or a tick handler, timeout
\* sweep or shutdown sweep waiting inside the closePositionPair it awaits.
BlankFrame ==
  [ kind |-> "none", pc |-> "none", wakeAt |-> 0, oid |-> NoId, now |-> 0,
    symbol |-> "", buyExchange |-> "", buyPrice |-> 0, sellPrice |-> 0,
    buyQty |-> NoQty, sellQty |-> NoQty, pairId |-> NoId, pnlUSD |-> 0,
    balB |-> 0, cursor |-> 0, rest |-> << >>, due |-> {} ]

Suspend(s, f) == [s EXCEPT !.tasks = @ (+) SetToBag({f})]
Drop(s, f) == [s EXCEPT !.tasks = @ (-) SetToBag({f})]

\* recordSkippedOpportunity: the body is empty; the observer notes the reason.
recordSkippedOpportunity(s, reason) ==
  [s EXCEPT !.skipCalls = @ \cup {reason}]

\* recordTradingError
recordTradingError(s, symbol, operation, exchange) ==
  [s EXCEPT !.tradingErrors =
      Append(@, [symbol |-> symbol, operation |-> operation, exchange |-> exchange])]

\* The mock venue notes a createMarketOrder call.
PlaceOrder(s, id, op) == [s EXCEPT !.orderCalls[id][op] = @ + 1]

\* Map iteration (insertion order, live): the first key inserted after `cursor`.
NextEntry(s, cursor) ==
  LET later == {id \in s.openPositions : s.pairs[id].seq > cursor}
  IN  IF later = {} THEN NoId
      ELSE CHOOSE id \in later : \A o \in later : s.pairs[id].seq <= s.pairs[o].seq

RECURSIVE EntriesFrom(_, _)
EntriesFrom(s, cursor) ==
  LET nxt == NextEntry(s, cursor)
  IN  IF nxt = NoId THEN << >>
      ELSE << nxt >> \o EntriesFrom(s, s.pairs[nxt].seq)

\* ArbitrageDetector.getCurrentPrices
getCurrentPrices(symbol) ==
  LET binancePrice == priceCache["binance"][symbol]
      mexcPrice == priceCache["mexc"][toMexcFormat(symbol)]
  IN  IF binancePrice = NoPrice \/ mexcPrice = NoPrice
        THEN [found |-> FALSE, buyPrice |-> 0, sellPrice |-> 0]
      ELSE IF binancePrice.ask < mexcPrice.bid
        THEN [found |-> TRUE, buyPrice |-> binancePrice.ask, sellPrice |-> mexcPrice.bid]
        ELSE [found |-> TRUE, buyPrice |-> mexcPrice.ask, sellPrice |-> binancePrice.bid]

\* canOpenNewPosition
canOpenNewPosition(s) ==
  IF ~config.enabled THEN FALSE
  ELSE Cardinality(s.openPositions) < config.maxOpenPositions

\* A reconciliation that adds up the two venue balances (a deliberately wrong
\* variant).
ReconcileBalanceSum(s, binanceBalance, mexcBalance) ==
  IF binanceBalance > 0 \/ mexcBalance > 0
    THEN [s EXCEPT !.currentBalance = binanceBalance + mexcBalance]
    ELSE s

\* The balance after a live open or close: the minimum of two positive venue
\* balances, else the positive one, else unchanged.
ReconcileBalance(s, binanceBalance, mexcBalance) ==
  IF binanceBalance > 0 /\ mexcBalance > 0
    THEN [s EXCEPT !.currentBalance = Min(binanceBalance, mexcBalance)]
  ELSE IF binanceBalance > 0 THEN [s EXCEPT !.currentBalance = binanceBalance]
  ELSE IF mexcBalance > 0 THEN [s EXCEPT !.currentBalance = mexcBalance]
  ELSE s

\* ---------------------------------------------------------- closePositionPair
\* A PnL whose short leg is measured from the long entry (a deliberately wrong
\* variant).
ClosePnlCrossed(pair, currentBuyPrice, currentSellPrice) ==
  LET longPnlPercent == Pct(currentBuyPrice - pair.longEntry, pair.longEntry)
      shortPnlPercent == Pct(pair.longEntry - currentSellPrice, pair.longEntry)
      fees == (config.takerBinance + config.takerMexc) * 2
      totalPnlPercent == ((longPnlPercent + shortPnlPercent) \div 2) - fees
      totalPnlUSD == (totalPnlPercent * (config.positionSizeUSD * 2)) \div 100
  IN  [longPnlPercent |-> longPnlPercent, shortPnlPercent |-> shortPnlPercent,
       totalPnlPercent |-> totalPnlPercent, totalPnlUSD |-> totalPnlUSD]

\* A PnL that charges the taker fees of one trade only, not of the open and
\* the close (a deliberately wrong variant).
ClosePnlSingleFee(pair, currentBuyPrice, currentSellPrice) ==
  LET longPnlPercent == Pct(currentBuyPrice - pair.longEntry, pair.longEntry)
      shortPnlPercent == Pct(pair.shortEntry - currentSellPrice, pair.shortEntry)
      fees == config.takerBinance + config.takerMexc
      totalPnlPercent == ((longPnlPercent + shortPnlPercent) \div 2) - fees
      totalPnlUSD == (totalPnlPercent * (config.positionSizeUSD * 2)) \div 100
  IN  [longPnlPercent |-> longPnlPercent, shortPnlPercent |-> shortPnlPercent,
       totalPnlPercent |-> totalPnlPercent, totalPnlUSD |-> totalPnlUSD]

\* PnL of a close at the given exit prices.
ClosePnl(pair, currentBuyPrice, currentSellPrice) ==
  LET longPnlPercent == Pct(currentBuyPrice - pair.longEntry, pair.longEntry)
      shortPnlPercent == Pct(pair.shortEntry - currentSellPrice, pair.shortEntry)
      fees == (config.takerBinance + config.takerMexc) * 2
      totalPnlPercent == ((longPnlPercent + shortPnlPercent) \div 2) - fees
      totalPnlUSD == (totalPnlPercent * (config.positionSizeUSD * 2)) \div 100
  IN  [longPnlPercent |-> longPnlPercent, shortPnlPercent |-> shortPnlPercent,
       totalPnlPercent |-> totalPnlPercent, totalPnlUSD |-> totalPnlUSD]

\* type CloseReason
CloseReasons == {"CONVERGENCE", "TIMEOUT", "MANUAL", "FORCE_SHUTDOWN"}

\* A status that tells a convergence close from the others (a deliberately
\* wrong variant).
CloseStatusByReason(reason) ==
  IF reason = "TIMEOUT" THEN "TIMEOUT_CLOSED"
  ELSE IF reason = "CONVERGENCE" THEN "CLOSED_BY_CONVERGENCE"
  ELSE "CLOSED"

\* pair.status = reason === 'TIMEOUT' ? 'TIMEOUT_CLOSED' : 'CLOSED'
CloseStatus(reason) == IF reason = "TIMEOUT" THEN "TIMEOUT_CLOSED" ELSE "CLOSED"

\* The fields closePositionPair writes into the pair object before its first await.
CloseMark(pair, reason, currentBuyPrice, currentSellPrice) ==
  [pair EXCEPT !.status = CloseStatus(reason),
               !.closeTime = now,
               !.closeReason = reason,
               !.actualProfit =
                   ClosePnl(pair, currentBuyPrice, currentSellPrice).totalPnlPercent,
               !.longExit = currentBuyPrice,
               !.shortExit = currentSellPrice]

\* A close that leaves the pair in the map when one of its legs has failed (a
\* deliberately wrong variant).
CloseMoveIfFilled(s, pairId) ==
  IF \E i \in DOMAIN s.tradingErrors :
        s.tradingErrors[i].operation \in {"CLOSE_LONG", "CLOSE_SHORT"}
    THEN s
    ELSE [s EXCEPT !.openPositions = @ \ {pairId},
                   !.closedPositions = Append(@, pairId)]

\* openPositions.delete(pairId); closedPositions.push(pair)
CloseMove(s, pairId) ==
  [s EXCEPT !.openPositions = @ \ {pairId},
            !.closedPositions = Append(@, pairId)]

\* testStats update at the end of a close.
CloseStats(s, totalPnlUSD) ==
  IF totalPnlUSD > 0
    THEN [s EXCEPT !.testStats.totalTrades = @ + 1,
                   !.testStats.profitableTrades = @ + 1,
                   !.testStats.totalProfit = @ + totalPnlUSD]
    ELSE [s EXCEPT !.testStats.totalTrades = @ + 1,
                   !.testStats.losingTrades = @ + 1,
                   !.testStats.totalLoss = @ + Abs(totalPnlUSD)]

\* A credit that forgets the PnL (a deliberately wrong variant).
CloseCreditNoPnl(s, totalPnlUSD) ==
  [s EXCEPT !.currentBalance = @ + (config.positionSizeUSD * 2) * PctScale]

\* Simulated mode: the credit of a close.
CloseCredit(s, totalPnlUSD) ==
  [s EXCEPT !.currentBalance =
      @ + (config.positionSizeUSD * 2) * PctScale + totalPnlUSD]

\* A guard that lets every pair ever opened through (a deliberately wrong
\* variant).
CloseGuardEverOpened(s, pairId) == pairId \in DOMAIN s.pairs

\* The guard of closePositionPair: the pair is still in the open map.
CloseGuard(s, pairId) == pairId \in s.openPositions

\* --------------------------------------------------------- openPositionPair
\* The PositionPair an open sequence builds (entry prices are the simulated
\* average fill prices) as it is when put into the map.
MakePair(f, seq) ==
  LET longExec == calculateExecutionPrice(config.positionSizeUSD, f.buyPrice, f.buyQty)
      shortExec == calculateExecutionPrice(config.positionSizeUSD, f.sellPrice, f.sellQty)
      timeoutAt == IF config.positionTimeoutSeconds = 0 THEN Infinity
                   ELSE f.now + config.positionTimeoutSeconds * 1000
  IN  [ id |-> f.oid, seq |-> seq, symbol |-> f.symbol,
        longExchange |-> f.buyExchange, shortExchange |-> Other(f.buyExchange),
        longEntry |-> longExec.avgPrice, shortEntry |-> shortExec.avgPrice,
        openSpread |-> Pct(f.sellPrice - f.buyPrice, f.buyPrice),
        status |-> "OPEN", openTime |-> f.now, timeoutAt |-> timeoutAt,
        closeTime |-> 0, closeReason |-> "NONE", actualProfit |-> 0,
        currentSpread |-> 0,
        priceDiffPercent |-> Pct(f.sellPrice - f.buyPrice, f.buyPrice),
        currentLongPrice |-> 0, currentShortPrice |-> 0,
        longExit |-> 0, shortExit |-> 0,
        originalBinancePrice |-> IF f.buyExchange = "binance" THEN f.buyPrice
                                 ELSE f.sellPrice,
        originalMexcPrice |-> IF f.buyExchange = "mexc" THEN f.buyPrice
                              ELSE f.sellPrice ]

\* this.openPositions.set(pairId, positionPair)
InsertPair(s, f) ==
  [s EXCEPT !.inserted = @ + 1,
            !.pairs = (f.oid :> MakePair(f, s.inserted + 1)) @@ @,
            !.openPositions = @ \cup {f.oid}]

\* Simulated mode: the debit of an open.
OpenDebit(s) ==
  [s EXCEPT !.currentBalance = @ - (config.positionSizeUSD * 2) * PctScale]

\* The single-flight guard at the head of openPositionPair.
OpenGuard(s) == s.pendingOrders > 0

\* The part of an open sequence that holds the guard: pendingOrders++.
HoldGuard(s) == [s EXCEPT !.pendingOrders = @ + 1]
ReleaseGuard(s) == [s EXCEPT !.pendingOrders = @ - 1]

\* An open that goes on without the capital check (a deliberately wrong
\* variant).
OpenAfterWaitUnfunded(s, f) ==
  IF config.testMode THEN OpenDebit(InsertPair(s, f))
  ELSE Suspend(HoldGuard(s), [f EXCEPT !.pc = "levBinance"])

\* The slot re-check of live mode.
SlotsFull(s) == Cardinality(s.openPositions) >= config.maxOpenPositions

\* An open without the ceiling on the position size (a deliberately wrong
\* variant).
OpenAfterWaitUncapped(s, f) ==
  LET requiredCapital == (config.positionSizeUSD * 2) * PctScale
  IN  IF s.currentBalance < requiredCapital
        THEN recordSkippedOpportunity(s, "INSUFFICIENT_BALANCE")
      ELSE IF config.testMode
        THEN OpenDebit(InsertPair(s, f))
      ELSE LET s1 == HoldGuard(s)
           IN  IF SlotsFull(s1)
                 THEN ReleaseGuard(recordSkippedOpportunity(s1, "MAX_POSITIONS_REACHED"))
               ELSE Suspend(s1, [f EXCEPT !.pc = "levBinance"])

\* openPositionPair from the capital check on (after the rate-limit sleep, if any).
OpenAfterWait(s, f) ==
  LET requiredCapital == (config.positionSizeUSD * 2) * PctScale
  IN  IF s.currentBalance < requiredCapital
        THEN recordSkippedOpportunity(s, "INSUFFICIENT_BALANCE")
      ELSE IF config.testMode
        THEN OpenDebit(InsertPair(s, f))
      ELSE LET s1 == HoldGuard(s)
           IN  IF config.positionSizeUSD > SafetyCapUSD
                 THEN ReleaseGuard(recordSkippedOpportunity(s1, "POSITION_SIZE_TOO_LARGE"))
               ELSE IF SlotsFull(s1)
                 THEN ReleaseGuard(recordSkippedOpportunity(s1, "MAX_POSITIONS_REACHED"))
               \* await this.binance.setLeverage(...)
               ELSE Suspend(s1, [f EXCEPT !.pc = "levBinance"])

\* The rate-limit wait: the time the open sequence must sleep, 0 if none.
RateLimitWait(s) ==
  IF s.lastOrderTime > 0 /\ now - s.lastOrderTime < MIN_ORDER_INTERVAL_MS
    THEN MIN_ORDER_INTERVAL_MS - (now - s.lastOrderTime)
    ELSE 0

openPositionPair(s, opp) ==
  IF OpenGuard(s)
    THEN recordSkippedOpportunity(s, "RATE_LIMIT_PENDING")
  ELSE IF s.opensStarted >= env.maxOpens
    THEN [s EXCEPT !.inBounds = FALSE]
  ELSE LET f == [opp EXCEPT !.kind = "open", !.oid = s.opensStarted + 1,
                            !.now = now, !.cursor = 0]
           s1 == [s EXCEPT !.opensStarted = @ + 1]
           waitTime == RateLimitWait(s)
       IN  IF waitTime > 0
             THEN Suspend(s1, [f EXCEPT !.pc = "rateSleep", !.wakeAt = now + waitTime])
             ELSE OpenAfterWait(s1, f)

\* ArbitrageDetector.handleNewOpportunity: the opportunity gate.
handleNewOpportunity(s, opp) ==
  IF \E id \in s.openPositions : s.pairs[id].symbol = opp.symbol
    THEN s
  ELSE IF canOpenNewPosition(s)
    THEN openPositionPair(s, opp)
  ELSE recordSkippedOpportunity(s, "NO_FREE_SLOTS")

\* The observer of the scanner is kept only where the environment asks for it.
Observe(s, tick) == IF env.observe THEN [s EXCEPT !.lastTick = tick] ELSE s

\* checkArbitrage: spreadPercent of the sides chosen.
SpreadPercent(f) == Pct(f.sellPrice - f.buyPrice, f.buyPrice)

\* checkArbitrage: profitPercent after both taker fees and the slippage allowance
\* (prices with fee are kept in units of 1/(100 * PctScale) of the price unit).
ProfitPercent(f) ==
  LET buyFee == IF f.buyExchange = "binance" THEN config.takerBinance
                ELSE config.takerMexc
      sellFee == IF f.buyExchange = "binance" THEN config.takerMexc
                 ELSE config.takerBinance
      buyPriceWithFee == f.buyPrice * (100 * PctScale + buyFee + config.slippagePercent)
      sellPriceWithFee == f.sellPrice * (100 * PctScale - sellFee - config.slippagePercent)
  IN  (sellPriceWithFee - buyPriceWithFee) \div (buyPriceWithFee \div (100 * PctScale))

\* checkArbitrage: the sides and the spread it goes on with.
Chosen(f) ==
  [buyExchange |-> f.buyExchange, sellExchange |-> Other(f.buyExchange),
   buyPrice |-> f.buyPrice, sellPrice |-> f.sellPrice,
   spreadPercent |-> SpreadPercent(f)]

\* The ArbitrageOpportunity object checkArbitrage builds.
Opportunity(f) ==
  [buyExchange |-> f.buyExchange, sellExchange |-> Other(f.buyExchange),
   buyPrice |-> f.buyPrice, sellPrice |-> f.sellPrice,
   spreadPercent |-> SpreadPercent(f), profitPercent |-> ProfitPercent(f)]

\* A gate that also shuts on an unprofitable spread (a deliberately wrong
\* variant).
GateShutOnLoss(f) ==
  SpreadPercent(f) < config.minSpreadPercent \/ ProfitPercent(f) < 0

\* checkArbitrage: `if (spreadPercent < minSpreadPercent) return`.
GateShut(f) == SpreadPercent(f) < config.minSpreadPercent

\* checkArbitrage after `await updatePositionSpread`: the spread gate and the
\* emission of the opportunity.
AfterUpdate(s, f) ==
  IF GateShut(f) THEN Observe(s, [s.lastTick EXCEPT !.gated = TRUE])
  ELSE LET s1 == Observe(s, [s.lastTick EXCEPT !.gated = TRUE, !.emitted = TRUE,
                                               !.opportunity = Opportunity(f)])
       IN  IF config.enabled THEN handleNewOpportunity(s1, f) ELSE s1

\* ---------------------------------------------- the loops that call close
\* The live fields updatePositionSpread writes into an open pair.
\* An update that measures the divergence against the higher of the two
\* prices (a deliberately wrong variant).
UpdateMarkOfMax(pair, currentBuyPrice, currentSellPrice) ==
  LET currentLongPrice == IF pair.longExchange = "binance"
                            THEN currentBuyPrice ELSE currentSellPrice
      currentShortPrice == IF pair.longExchange = "binance"
                             THEN currentSellPrice ELSE currentBuyPrice
      longPnl == Pct(currentLongPrice - pair.longEntry, pair.longEntry)
      shortPnl == Pct(pair.shortEntry - currentShortPrice, pair.shortEntry)
  IN  [pair EXCEPT
         !.currentSpread = Pct(currentSellPrice - currentBuyPrice, currentBuyPrice),
         !.currentLongPrice = currentLongPrice,
         !.currentShortPrice = currentShortPrice,
         !.priceDiffPercent = Pct(Abs(currentBuyPrice - currentSellPrice),
                                  IF currentBuyPrice > currentSellPrice
                                    THEN currentBuyPrice ELSE currentSellPrice),
         !.actualProfit = ((longPnl + shortPnl) \div 2) - (12 * PctScale) \div 100]

UpdateMark(pair, currentBuyPrice, currentSellPrice) ==
  LET currentLongPrice == IF pair.longExchange = "binance"
                            THEN currentBuyPrice ELSE currentSellPrice
      currentShortPrice == IF pair.longExchange = "binance"
                             THEN currentSellPrice ELSE currentBuyPrice
      longPnl == Pct(currentLongPrice - pair.longEntry, pair.longEntry)
      shortPnl == Pct(pair.shortEntry - currentShortPrice, pair.shortEntry)
  IN  [pair EXCEPT
         !.currentSpread = Pct(currentSellPrice - currentBuyPrice, currentBuyPrice),
         !.currentLongPrice = currentLongPrice,
         !.currentShortPrice = currentShortPrice,
         !.priceDiffPercent = Pct(Abs(currentBuyPrice - currentSellPrice),
                                  Min(currentBuyPrice, currentSellPrice)),
         !.actualProfit = ((longPnl + shortPnl) \div 2) - (12 * PctScale) \div 100]

\* A timeout test that fires one sweep early (a deliberately wrong variant).
TimedOutEarly(sweepNow, pair) == sweepNow + SweepIntervalMs >= pair.timeoutAt

\* The timeout test of the sweep.
TimedOut(sweepNow, pair) == sweepNow >= pair.timeoutAt

RECURSIVE closePositionPair(_, _, _, _, _, _)
RECURSIVE Resume(_, _)
RECURSIVE updatePositionSpread(_, _, _)
RECURSIVE checkPositionTimeouts(_, _, _)
RECURSIVE forceCloseAllPositions(_, _, _)

\* closePositionPair up to its first remote call (live mode) or to its end
\* (simulated mode, which awaits nothing); `caller` is the frame awaiting it.
closePositionPair(s, pairId, reason, currentBuyPrice, currentSellPrice, caller) ==
  IF ~CloseGuard(s, pairId) THEN Resume(s, caller)
  ELSE LET pnl == ClosePnl(s.pairs[pairId], currentBuyPrice, currentSellPrice)
           s1 == [s EXCEPT !.pairs[pairId] =
                     CloseMark(@, reason, currentBuyPrice, currentSellPrice)]
       IN  IF config.testMode
             THEN Resume(CloseStats(CloseCredit(CloseMove(s1, pairId), pnl.totalPnlUSD),
                                    pnl.totalPnlUSD),
                         caller)
             \* await createMarketOrder(... reduceOnly) for the long leg
             ELSE Suspend(PlaceOrder(s1, pairId, "CLOSE_LONG"),
                          [caller EXCEPT !.pc = "closeLong", !.pairId = pairId,
                                         !.pnlUSD = pnl.totalPnlUSD])

\* The code that runs when the awaited closePositionPair has returned.
Resume(s, caller) ==
  LET f == [caller EXCEPT !.pc = "none", !.wakeAt = 0, !.pairId = NoId,
                          !.pnlUSD = 0, !.balB = 0]
  IN  IF f.kind = "tick" THEN updatePositionSpread(s, f, f.cursor)
      ELSE IF f.kind = "sweep" THEN checkPositionTimeouts(s, f, f.cursor)
      ELSE IF f.kind = "shutdown" THEN forceCloseAllPositions(s, f, f.rest)
      ELSE s

\* updatePositionSpread from the map entry after `cursor`, then the rest of
\* checkArbitrage.
updatePositionSpread(s, f, cursor) ==
  LET pairId == NextEntry(s, cursor)
  IN  IF pairId = NoId THEN AfterUpdate(s, f)
      ELSE LET pair == s.pairs[pairId]
               f1 == [f EXCEPT !.cursor = pair.seq]
           IN  IF pair.symbol = f.symbol /\ pair.status = "OPEN"
                 THEN LET s1 == [s EXCEPT !.pairs[pairId] =
                                    UpdateMark(@, f.buyPrice, f.sellPrice)]
                      IN  IF config.closeOnSpreadConvergence
                             /\ checkPriceConvergence(f.buyPrice, f.sellPrice)
                            THEN closePositionPair(s1, pairId, "CONVERGENCE",
                                                   f.buyPrice, f.sellPrice, f1)
                            ELSE updatePositionSpread(s1, f1, pair.seq)
                 ELSE updatePositionSpread(s, f1, pair.seq)

\* checkPositionTimeouts from the map entry after `cursor`.
checkPositionTimeouts(s, f, cursor) ==
  LET pairId == NextEntry(s, cursor)
  IN  IF pairId = NoId THEN [s EXCEPT !.lastSweep = [done |-> TRUE, due |-> f.due]]
      ELSE LET pair == s.pairs[pairId]
               f1 == [f EXCEPT !.cursor = pair.seq]
               prices == getCurrentPrices(pair.symbol)
           IN  IF TimedOut(f.now, pair) /\ prices.found
                 THEN closePositionPair(s, pairId, "TIMEOUT",
                                        prices.buyPrice, prices.sellPrice, f1)
                 ELSE checkPositionTimeouts(s, f1, pair.seq)

\* forceCloseAllPositions over the rest of its snapshot of the map, then the
\* shutdown report and ArbitrageDetector.stop.
forceCloseAllPositions(s, f, rest) ==
  IF rest = << >>
    THEN [s EXCEPT !.reportOpen = [@ EXCEPT !.taken = TRUE,
                                                !.open = s.openPositions],
                   !.phase = "stopped"]
  ELSE LET pairId == Head(rest)
           f1 == [f EXCEPT !.rest = Tail(rest)]
           prices == getCurrentPrices(s.pairs[pairId].symbol)
       IN  IF prices.found
             THEN closePositionPair(s, pairId, "FORCE_SHUTDOWN",
                                    prices.buyPrice, prices.sellPrice, f1)
             ELSE forceCloseAllPositions(s, f1, Tail(rest))

\* ------------------------------------------------- resuming after an await
RemotePcs == {"levBinance", "levMexc", "longOrder", "shortOrder", "balBinance",
              "balMexc", "closeLong", "closeShort", "closeBalB", "closeBalM"}
BalancePcs == {"balBinance", "balMexc", "closeBalB", "closeBalM"}
SleepPcs == {"rateSleep", "legSleep", "closeSleep"}

\* A catch block that swallows the failure without recording it (a
\* deliberately wrong variant).
CaughtUnrecorded(s, ok, symbol, operation, exchange) == s

\* A failed remote call is recorded by the catch block around it.
Caught(s, ok, symbol, operation, exchange) ==
  IF ok THEN s ELSE recordTradingError(s, symbol, operation, exchange)

\* A failed leg whose catch block does not release the guard (a deliberately
\* wrong variant).
OpenLegFailedKeepsGuard(s, f, operation, exchange) ==
  recordSkippedOpportunity(recordTradingError(s, f.symbol, operation, exchange),
                           "ORDER_CREATION_FAILED")

\* A failed leg of an open: the inner catch records the error and rethrows, the
\* outer catch skips with ORDER_CREATION_FAILED and releases the guard.
OpenLegFailed(s, f, operation, exchange) ==
  ReleaseGuard(recordSkippedOpportunity(
      recordTradingError(s, f.symbol, operation, exchange),
      "ORDER_CREATION_FAILED"))

\* A failed long leg that is recorded but not rethrown, so that the sequence
\* goes on to the short leg (a deliberately wrong variant).
LongLegFailedGoesOn(s, f) ==
  Suspend(recordTradingError(s, f.symbol, "OPEN_LONG", f.buyExchange),
          [f EXCEPT !.pc = "legSleep", !.wakeAt = now + InterLegDelayMs])

\* The long leg of the open has failed.
LongLegFailed(s, f) == OpenLegFailed(s, f, "OPEN_LONG", f.buyExchange)

\* A failed short leg that is answered with an order unwinding the long leg (a
\* deliberately wrong variant).
ShortLegFailedUnwinds(s, f) ==
  PlaceOrder(OpenLegFailed(s, f, "OPEN_SHORT", Other(f.buyExchange)),
             f.oid, "CLOSE_LONG")

\* The short leg of the open has failed (the long leg is filled).
ShortLegFailed(s, f) == OpenLegFailed(s, f, "OPEN_SHORT", Other(f.buyExchange))

\* Both legs are placed: the order time is noted, the guard released, the pair
\* put into the map, and the venues' balances are fetched.
OpenPlaced(s, f) ==
  Suspend(InsertPair(ReleaseGuard([s EXCEPT !.lastOrderTime = now]), f),
          [f EXCEPT !.pc = "balBinance"])

\* The answer (ok or an ExecutionError; `bal` the balance of a getBalance) to
\* the remote call frame f awaits, and the sequence up to its next await.
RemoteReturn(s0, f, ok, bal) ==
  LET s == Drop(IF ok THEN s0 ELSE [s0 EXCEPT !.failuresLeft = @ - 1], f)
      got == IF ok THEN bal ELSE 0
  IN  CASE f.pc = "levBinance" ->
             Suspend(Caught(s, ok, f.symbol, "SET_LEVERAGE", "binance"),
                     [f EXCEPT !.pc = "levMexc"])
        [] f.pc = "levMexc" ->
             Suspend(PlaceOrder(Caught(s, ok, f.symbol, "SET_LEVERAGE", "mexc"),
                                f.oid, "OPEN_LONG"),
                     [f EXCEPT !.pc = "longOrder"])
        [] f.pc = "longOrder" ->
             IF ok THEN Suspend(s, [f EXCEPT !.pc = "legSleep",
                                             !.wakeAt = now + InterLegDelayMs])
             ELSE LongLegFailed(s, f)
        [] f.pc = "shortOrder" ->
             IF ok THEN OpenPlaced(s, f)
             ELSE ShortLegFailed(s, f)
        [] f.pc = "balBinance" ->
             Suspend(Caught(s, ok, f.symbol, "GET_BALANCE", "binance"),
                     [f EXCEPT !.pc = "balMexc", !.balB = got])
        [] f.pc = "balMexc" ->
             ReconcileBalance(Caught(s, ok, f.symbol, "GET_BALANCE", "mexc"),
                              f.balB, got)
        [] f.pc = "closeLong" ->
             Suspend(Caught(s, ok, s.pairs[f.pairId].symbol, "CLOSE_LONG",
                            s.pairs[f.pairId].longExchange),
                     [f EXCEPT !.pc = "closeSleep", !.wakeAt = now + InterLegDelayMs])
        [] f.pc = "closeShort" ->
             Suspend(CloseMove(Caught(s, ok, s.pairs[f.pairId].symbol, "CLOSE_SHORT",
                                      s.pairs[f.pairId].shortExchange),
                               f.pairId),
                     [f EXCEPT !.pc = "closeBalB"])
        [] f.pc = "closeBalB" ->
             Suspend(Caught(s, ok, s.pairs[f.pairId].symbol, "GET_BALANCE", "binance"),
                     [f EXCEPT !.pc = "closeBalM", !.balB = got])
        [] f.pc = "closeBalM" ->
             Resume(CloseStats(ReconcileBalance(
                        Caught(s, ok, s.pairs[f.pairId].symbol, "GET_BALANCE", "mexc"),
                        f.balB, got),
                      f.pnlUSD),
                    f)

\* The setTimeout frame f sleeps on has fired.
TimerReturn(s0, f) ==
  LET s == Drop(s0, f)
      g == [f EXCEPT !.wakeAt = 0]
  IN  CASE f.pc = "rateSleep" -> OpenAfterWait(s, [g EXCEPT !.pc = "none"])
        [] f.pc = "legSleep" ->
             Suspend(PlaceOrder(s, f.oid, "OPEN_SHORT"), [g EXCEPT !.pc = "shortOrder"])
        [] f.pc = "closeSleep" ->
             Suspend(PlaceOrder(s, f.pairId, "CLOSE_SHORT"),
                     [g EXCEPT !.pc = "closeShort"])

\* Sides that take the bid of the buy venue as the buy price (a deliberately
\* wrong variant).
SidesByBid(v, price1, price2) ==
  IF price1.ask < price2.bid
    THEN [crossed |-> TRUE, buyExchange |-> v, buyPrice |-> price1.bid,
          sellPrice |-> price2.bid, buyQty |-> price1.askQty,
          sellQty |-> price2.bidQty]
  ELSE IF price2.ask < price1.bid
    THEN [crossed |-> TRUE, buyExchange |-> Other(v), buyPrice |-> price2.bid,
          sellPrice |-> price1.bid, buyQty |-> price2.askQty,
          sellQty |-> price1.bidQty]
  ELSE [crossed |-> FALSE, buyExchange |-> v, buyPrice |-> 0, sellPrice |-> 0,
        buyQty |-> NoQty, sellQty |-> NoQty]

\* checkArbitrage: the choice of the buy and the sell side (price1 is the
\* tick of venue v, price2 the cached price of the other venue).
Sides(v, price1, price2) ==
  IF price1.ask < price2.bid
    THEN [crossed |-> TRUE, buyExchange |-> v, buyPrice |-> price1.ask,
          sellPrice |-> price2.bid, buyQty |-> price1.askQty,
          sellQty |-> price2.bidQty]
  ELSE IF price2.ask < price1.bid
    THEN [crossed |-> TRUE, buyExchange |-> Other(v), buyPrice |-> price2.ask,
          sellPrice |-> price1.bid, buyQty |-> price2.askQty,
          sellQty |-> price1.bidQty]
  ELSE [crossed |-> FALSE, buyExchange |-> v, buyPrice |-> 0, sellPrice |-> 0,
        buyQty |-> NoQty, sellQty |-> NoQty]

\* A handler that applies the spread gate before it updates the open pairs (a
\* deliberately wrong variant).
onPriceUpdateGateFirst(s0, v, symbol, price1) ==
  LET price2 == priceCache[Other(v)][VenueSymbol(Other(v), symbol)]
      seen == [NoTick EXCEPT !.exchange = v, !.price1 = price1, !.price2 = price2]
      s == Observe(s0, seen)
      sides == Sides(v, price1, price2)
      tick == [BlankFrame EXCEPT !.kind = "tick", !.symbol = symbol,
                                 !.buyExchange = sides.buyExchange,
                                 !.buyPrice = sides.buyPrice,
                                 !.sellPrice = sides.sellPrice,
                                 !.buyQty = sides.buyQty, !.sellQty = sides.sellQty]
  IN  IF price2 = NoPrice THEN s
      ELSE IF sides.crossed /\ ~GateShut(tick)
        THEN updatePositionSpread(
               Observe(s, [seen EXCEPT !.updated = TRUE, !.chosen = Chosen(tick)]),
               tick, 0)
      ELSE s

\* ArbitrageDetector.onPriceUpdate and checkArbitrage for a tick of venue v.
onPriceUpdate(s0, v, symbol, price1) ==
  LET price2 == priceCache[Other(v)][VenueSymbol(Other(v), symbol)]
      seen == [NoTick EXCEPT !.exchange = v, !.price1 = price1, !.price2 = price2]
      s == Observe(s0, seen)
      sides == Sides(v, price1, price2)
      tick == [BlankFrame EXCEPT !.kind = "tick", !.symbol = symbol,
                                 !.buyExchange = sides.buyExchange,
                                 !.buyPrice = sides.buyPrice,
                                 !.sellPrice = sides.sellPrice,
                                 !.buyQty = sides.buyQty, !.sellQty = sides.sellQty]
  IN  IF price2 = NoPrice THEN s
      ELSE IF sides.crossed
        THEN updatePositionSpread(
               Observe(s, [seen EXCEPT !.updated = TRUE, !.chosen = Chosen(tick)]),
               tick, 0)
      ELSE s

\* ------------------------------------------------------------------ actions
\* The state after construction, for a configuration and an environment.
Constructed(cfg, e) ==
  /\ config = cfg
  /\ env = e
  /\ now = StartTime
  /\ priceCache = [v \in Venues |->
                     [vs \in {VenueSymbol(v, sym) : sym \in Symbols} |-> NoPrice]]
  /\ pairs = [id \in {} |-> 0]
  /\ openPositions = {}
  /\ closedPositions = << >>
  /\ currentBalance = cfg.testBalanceUSD
  /\ initialBalance = cfg.testBalanceUSD
  /\ testStats = [totalTrades |-> 0, profitableTrades |-> 0, losingTrades |-> 0,
                  totalProfit |-> 0, totalLoss |-> 0]
  /\ tradingErrors = << >>
  /\ skippedOpportunities = << >>
  /\ pendingOrders = 0
  /\ lastOrderTime = 0
  /\ tasks = EmptyBag
  /\ sweepDue = FALSE
  /\ orderCalls = [id \in 1..e.maxOpens |-> [op \in OrderOps |-> 0]]
  /\ skipCalls = {}
  /\ opensStarted = 0
  /\ inserted = 0
  /\ failuresLeft = e.failures
  /\ lastSweep = [done |-> FALSE, due |-> {}]
  /\ reportOpen = [taken |-> FALSE, open |-> {}, snapshot |-> {}]
  /\ directCalls = << >>
  /\ lastTick = NoTick
  /\ probe = NoProbe
  /\ clients = [v \in Venues |-> NoClient]

\* The state once ArbitrageDetector.start has returned: feeds and timers run.
Start(cfg, e) == Constructed(cfg, e) /\ phase = "running"

\* Feeds that deliver from construction on, whether or not start has got to
\* startWebSocketMonitoring (a deliberately wrong variant).
SubscribedAtConstruction(ph) == ph # "stopped"

\* The price feeds are open: startWebSocketMonitoring has run, stop has not.
Subscribed(ph) == ph \in {"running", "closing"}
\* The executor's interval timer runs: TradeExecutor.start has run, stop has not.
TimersStarted(ph) == ph \in {"running", "closing"}

\* A WebSocket message of venue v: the client caches the price and calls the
\* detector's handler.
Deliver(v, symbol, quote) ==
  /\ priceCache' = [priceCache EXCEPT ![v][VenueSymbol(v, symbol)] = quote]
  /\ Apply(onPriceUpdate(St, v, toCommonFormat(VenueSymbol(v, symbol)), quote))
  /\ UNCHANGED << config, env, now, initialBalance, sweepDue, directCalls, probe >>

\* A message on a feed that is open (the sockets themselves are left out).
PriceTick(v, symbol, quote) ==
  /\ Subscribed(phase)
  /\ Deliver(v, symbol, quote)
  /\ UNCHANGED clients

\* The clock moves on by one sweep interval; the interval timer becomes due.
AdvanceTime ==
  /\ now < StartTime + env.maxSteps * SweepIntervalMs
  /\ ~sweepDue \/ phase = "stopped"
  /\ now' = now + SweepIntervalMs
  /\ sweepDue' = (config.enabled /\ TimersStarted(phase))
  /\ UNCHANGED << config, env, clients, priceCache, pairs, openPositions, closedPositions,
                  currentBalance, initialBalance, testStats, tradingErrors,
                  skippedOpportunities, pendingOrders, lastOrderTime, tasks,
                  phase, orderCalls, skipCalls, opensStarted, inserted,
                  failuresLeft, lastSweep, reportOpen, directCalls, lastTick,
                  probe >>

\* The 500 ms interval callback of TradeExecutor.start: checkPositionTimeouts.
SweepTimer ==
  /\ sweepDue
  /\ TimersStarted(phase)
  /\ sweepDue' = FALSE
  /\ Apply(checkPositionTimeouts(St,
        [BlankFrame EXCEPT !.kind = "sweep", !.now = now,
            !.due = {id \in openPositions : pairs[id].timeoutAt <= now}], 0))
  /\ UNCHANGED << config, env, clients, now, priceCache, initialBalance, directCalls, probe >>

\* ArbitrageDetector.fetchTopPairs: the symbols both venues list, less the
\* excluded ones.
CommonSymbols ==
  LET binanceSymbols == env.getTopPairs["binance"]
      mexcSymbolsConverted == {toCommonFormat(p) : p \in env.getTopPairs["mexc"]}
  IN  {sym \in binanceSymbols : sym \in mexcSymbolsConverted} \ config.excludePairs

\* ArbitrageDetector.start, first await: checkExchangesHealth throws if a venue
\* does not answer its ping.
checkExchangesHealth ==
  /\ phase = "starting"
  /\ phase' = IF env.healthCheck["binance"] /\ env.healthCheck["mexc"]
                 THEN "fetching" ELSE "failed"
  /\ UNCHANGED << config, env, clients, now, priceCache, pairs, openPositions,
                  closedPositions, currentBalance, initialBalance, testStats,
                  tradingErrors, skippedOpportunities, pendingOrders,
                  lastOrderTime, tasks, sweepDue, orderCalls, skipCalls,
                  opensStarted, inserted, failuresLeft, lastSweep, reportOpen,
                  directCalls, lastTick, probe >>

\* ArbitrageDetector.start, second await: fetchTopPairs throws if no common
\* symbol is left; otherwise TradeExecutor.start and startWebSocketMonitoring
\* follow in the same macrotask.
fetchTopPairs ==
  /\ phase = "fetching"
  /\ phase' = IF CommonSymbols = {} THEN "failed" ELSE "running"
  /\ UNCHANGED << config, env, clients, now, priceCache, pairs, openPositions,
                  closedPositions, currentBalance, initialBalance, testStats,
                  tradingErrors, skippedOpportunities, pendingOrders,
                  lastOrderTime, tasks, sweepDue, orderCalls, skipCalls,
                  opensStarted, inserted, failuresLeft, lastSweep, reportOpen,
                  directCalls, lastTick, probe >>

\* Ctrl+C: gracefulShutdown calls forceCloseAllPositions.
Shutdown ==
  /\ phase = "running"
  /\ env.shutdown
  /\ Apply(forceCloseAllPositions([St EXCEPT !.phase = "closing",
                                             !.reportOpen.snapshot = openPositions],
        [BlankFrame EXCEPT !.kind = "shutdown", !.rest = EntriesFrom(St, 0)],
        EntriesFrom(St, 0)))
  /\ UNCHANGED << config, env, clients, now, priceCache, initialBalance, sweepDue,
                  directCalls, probe >>

\* A remote call returns (or throws).
RemoteAnswer(f, ok, bal) ==
  /\ f \in BagToSet(tasks)
  /\ f.pc \in RemotePcs
  /\ ok \/ failuresLeft > 0
  /\ Apply(RemoteReturn(St, f, ok, bal))
  /\ UNCHANGED << config, env, clients, now, priceCache, initialBalance, sweepDue,
                  directCalls, probe >>

\* A setTimeout of an order sequence fires.
TimerWake(f) ==
  /\ f \in BagToSet(tasks)
  /\ f.pc \in SleepPcs
  /\ now >= f.wakeAt
  /\ Apply(TimerReturn(St, f))
  /\ UNCHANGED << config, env, clients, now, priceCache, initialBalance, sweepDue,
                  directCalls, probe >>

\* closePositionPair invoked on its own (as a test of the method does) with any
\* id, at the prices getCurrentPrices gives.
DirectClose(pairId, reason) ==
  /\ phase = "running"
  /\ Len(directCalls) < env.maxDirect
  /\ getCurrentPrices(CHOOSE sym \in Symbols : TRUE).found
  /\ directCalls' = Append(directCalls, pairId)
  /\ LET prices == getCurrentPrices(CHOOSE sym \in Symbols : TRUE)
     IN  Apply(closePositionPair(St, pairId, reason, prices.buyPrice,
                                 prices.sellPrice,
                                 [BlankFrame EXCEPT !.kind = "direct"]))
  /\ UNCHANGED << config, env, clients, now, priceCache, initialBalance, sweepDue, probe >>

\* calculateExecutionPrice called on its own (it reads the configuration only).
ProbeCall(requestedUsd, basePrice, availableQty) ==
  /\ probe' = [requestedUsd |-> requestedUsd, basePrice |-> basePrice,
               availableQty |-> availableQty,
               result |-> calculateExecutionPrice(requestedUsd, basePrice,
                                                  availableQty)]
  /\ UNCHANGED << config, env, clients, now, priceCache, pairs, openPositions, closedPositions,
                  currentBalance, initialBalance, testStats, tradingErrors,
                  skippedOpportunities, pendingOrders, lastOrderTime, tasks,
                  phase, sweepDue, orderCalls, skipCalls, opensStarted, inserted,
                  failuresLeft, lastSweep, reportOpen, directCalls, lastTick >>

Tick == \E v \in Venues, symbol \in Symbols :
           \E quote \in env.quotes[v] : PriceTick(v, symbol, quote)
\* Only a getBalance that succeeds answers with a balance.
Answer == \E f \in BagToSet(tasks), ok \in BOOLEAN :
             \E bal \in (IF ok /\ f.pc \in BalancePcs THEN env.balances ELSE {0}) :
                RemoteAnswer(f, ok, bal)
Wake == \E f \in BagToSet(tasks) : TimerWake(f)
Probe == \E requestedUsd \in ProbeUsd, basePrice \in ProbePrices,
            availableQty \in ProbeQtys :
            ProbeCall(requestedUsd, basePrice, availableQty)
Direct == \E pairId \in Ids, reason \in CloseReasons :
             DirectClose(pairId, reason)

\* ---------------------------------------------------------- specifications
\* Simulated mode (testMode): every handler runs to its end in one macrotask.
EnvSim == [quotes |-> [v \in Venues |-> Quotes], balances |-> {0}, failures |-> 0,
           shutdown |-> TRUE, maxOpens |-> MaxOpensSim, maxSteps |-> MaxStepsSim,
           maxDirect |-> 0,
  observe |-> FALSE]
InitSim == \E cfg \in Configs :
              /\ cfg.testMode /\ cfg.maxOpenPositions = 2
              /\ cfg.positionTimeoutSeconds = 1
              /\ cfg.takerBinance > 0 /\ cfg.takerMexc > 0
              /\ DefaultTuning(cfg)
              /\ Start(cfg, EnvSim)
NextSim == Tick \/ AdvanceTime \/ SweepTimer \/ Shutdown
SpecSim == InitSim /\ [][NextSim]_vars

\* Simulated mode with both taker fees zero.
InitZeroFee == \E cfg \in Configs :
                  /\ cfg.testMode /\ cfg.maxOpenPositions = 2
                  /\ cfg.positionTimeoutSeconds = 1
                  /\ cfg.takerBinance = 0 /\ cfg.takerMexc = 0
                  /\ DefaultTuning(cfg)
                  /\ Start(cfg, EnvSim)
SpecZeroFee == InitZeroFee /\ [][NextSim]_vars

\* Live mode: order sequences are suspended at their remote calls and sleeps.
\* One venue quotes low, the other near or high; positions time out; the
\* operator may shut down.
EnvLive == [quotes |-> [v \in Venues |-> IF v = "binance" THEN {QuoteLow}
                                         ELSE {QuoteNear, QuoteHigh}],
            balances |-> {400 * PctScale}, failures |-> 0,
            shutdown |-> TRUE, maxOpens |-> MaxOpensLive, maxSteps |-> MaxStepsLive,
            maxDirect |-> 0,
  observe |-> FALSE]
InitLive == \E cfg \in Configs :
               /\ ~cfg.testMode /\ cfg.maxOpenPositions = 1
               /\ cfg.positionTimeoutSeconds = 1
               /\ cfg.takerBinance > 0 /\ cfg.takerMexc > 0
               /\ DefaultTuning(cfg)
               /\ Start(cfg, EnvLive)
NextLive == Tick \/ AdvanceTime \/ SweepTimer \/ Shutdown \/ Answer \/ Wake
SpecLive == InitLive /\ [][NextLive]_vars

\* Live mode with steady quotes: positions are closed by the timeout sweep only.
EnvTimeout == [quotes |-> [v \in Venues |-> IF v = "binance" THEN {QuoteLow}
                                            ELSE {QuoteHigh}],
               balances |-> {400 * PctScale}, failures |-> 0,
               shutdown |-> FALSE, maxOpens |-> MaxOpensTimeout,
               maxSteps |-> MaxStepsTimeout, maxDirect |-> 0,
  observe |-> FALSE]
InitTimeout == \E cfg \in Configs :
                  /\ ~cfg.testMode /\ cfg.maxOpenPositions = 1
                  /\ cfg.positionTimeoutSeconds = 1
                  /\ cfg.takerBinance > 0 /\ cfg.takerMexc > 0
                  /\ DefaultTuning(cfg)
                  /\ Start(cfg, EnvTimeout)
NextTimeout == Tick \/ AdvanceTime \/ SweepTimer \/ Answer \/ Wake
SpecTimeout == InitTimeout /\ [][NextTimeout]_vars

\* Live mode without timeouts, failures or shutdown, long enough for the
\* rate-limit sleep of openPositionPair to end.
EnvRace == [quotes |-> [v \in Venues |-> IF v = "binance" THEN {QuoteLow}
                                         ELSE {QuoteNear, QuoteHigh}],
            balances |-> {400 * PctScale}, failures |-> 0,
            shutdown |-> FALSE, maxOpens |-> MaxOpensRace, maxSteps |-> MaxStepsRace,
            maxDirect |-> 0,
  observe |-> FALSE]
InitRace == \E cfg \in Configs :
               /\ ~cfg.testMode /\ cfg.maxOpenPositions = 1
               /\ cfg.positionTimeoutSeconds = 0
               /\ cfg.takerBinance > 0 /\ cfg.takerMexc > 0
               /\ DefaultTuning(cfg)
               /\ Start(cfg, EnvRace)
NextRace == Tick \/ AdvanceTime \/ SweepTimer \/ Answer \/ Wake
SpecRace == InitRace /\ [][NextRace]_vars

\* Live mode with venues that may fail a remote call; no timeouts, no shutdown.
EnvFail == [quotes |-> [v \in Venues |-> IF v = "binance" THEN {QuoteLow}
                                         ELSE {QuoteNear, QuoteHigh}],
            balances |-> {400 * PctScale}, failures |-> MaxFailures,
            shutdown |-> FALSE, maxOpens |-> MaxOpensFail, maxSteps |-> MaxStepsFail,
            maxDirect |-> 0,
  observe |-> FALSE]
InitFail == \E cfg \in Configs :
               /\ ~cfg.testMode /\ cfg.maxOpenPositions = 1
               /\ cfg.positionTimeoutSeconds = 0
               /\ cfg.takerBinance > 0 /\ cfg.takerMexc > 0
               /\ DefaultTuning(cfg)
               /\ Start(cfg, EnvFail)
NextFail == Tick \/ AdvanceTime \/ SweepTimer \/ Answer \/ Wake
SpecFail == InitFail /\ [][NextFail]_vars

\* Live mode with closePositionPair also called from outside the loops.
EnvClose == [quotes |-> [v \in Venues |-> IF v = "binance" THEN {QuoteLow}
                                          ELSE {QuoteHigh}],
             balances |-> {400 * PctScale}, failures |-> 0,
             shutdown |-> FALSE, maxOpens |-> MaxOpensClose,
             maxSteps |-> MaxStepsClose, maxDirect |-> MaxDirect,
  observe |-> FALSE]
InitClose == \E cfg \in Configs :
                /\ ~cfg.testMode /\ cfg.maxOpenPositions = 1
                /\ cfg.positionTimeoutSeconds = 0
                /\ cfg.takerBinance > 0 /\ cfg.takerMexc > 0
                /\ DefaultTuning(cfg)
                /\ Start(cfg, EnvClose)
NextClose == Tick \/ AdvanceTime \/ SweepTimer \/ Answer \/ Wake \/ Direct
SpecClose == InitClose /\ [][NextClose]_vars

\* Live mode with the timeout switched off (positionTimeoutSeconds = 0): pairs
\* are closed by convergence only, whatever the number of sweeps.
EnvForever == [quotes |-> [v \in Venues |-> IF v = "binance" THEN {QuoteLow}
                                            ELSE {QuoteNear, QuoteHigh}],
               balances |-> {400 * PctScale}, failures |-> 0,
               shutdown |-> FALSE, maxOpens |-> MaxOpensForever,
               maxSteps |-> MaxStepsForever, maxDirect |-> 0,
  observe |-> FALSE]
InitForever == \E cfg \in Configs :
                  /\ ~cfg.testMode /\ cfg.maxOpenPositions = 1
                  /\ cfg.positionTimeoutSeconds = 0
                  /\ cfg.takerBinance > 0 /\ cfg.takerMexc > 0
                  /\ DefaultTuning(cfg)
                  /\ Start(cfg, EnvForever)
NextForever == Tick \/ AdvanceTime \/ SweepTimer \/ Answer \/ Wake
SpecForever == InitForever /\ [][NextForever]_vars

\* Simulated mode with the scanner observed: a slippage allowance of 10 % makes
\* every opportunity unprofitable after fees, and the convergence threshold is
\* either below or above the spreads the quotes give.
EnvScan == [quotes |-> [v \in Venues |-> Quotes], balances |-> {0}, failures |-> 0,
            shutdown |-> FALSE, maxOpens |-> MaxOpensScan, maxSteps |-> MaxStepsScan,
            maxDirect |-> 0, observe |-> TRUE]
InitScan == \E cfg \in Configs :
               /\ cfg.testMode /\ cfg.maxOpenPositions = 1
               /\ cfg.positionTimeoutSeconds = 0
               /\ cfg.takerBinance > 0 /\ cfg.takerMexc > 0
               /\ cfg.positionSizeUSD = 100
               /\ cfg.testBalanceUSD = 500 * PctScale
               /\ cfg.priceConvergencePercent # PctScale \div 2
               /\ cfg.slippagePercent = 10 * PctScale
               /\ Start(cfg, EnvScan)
NextScan == Tick \/ AdvanceTime \/ SweepTimer
SpecScan == InitScan /\ [][NextScan]_vars

\* calculateExecutionPrice on its own, with a slippage allowance of 10 %.
EnvProbe == [quotes |-> [v \in Venues |-> {}], balances |-> {0}, failures |-> 0,
             shutdown |-> FALSE, maxOpens |-> 0, maxSteps |-> 0, maxDirect |-> 0,
             observe |-> FALSE]
InitProbe == \E cfg \in Configs :
                /\ cfg.testMode /\ cfg.maxOpenPositions = 1
                /\ cfg.positionTimeoutSeconds = 0
                /\ cfg.takerBinance > 0 /\ cfg.takerMexc > 0
                /\ cfg.positionSizeUSD = 100
                /\ cfg.testBalanceUSD = 500 * PctScale
                /\ cfg.priceConvergencePercent = PctScale \div 2
                /\ cfg.slippagePercent = 10 * PctScale
                /\ Start(cfg, EnvProbe)
NextProbe == Probe
SpecProbe == InitProbe /\ [][NextProbe]_vars

\* Live mode with little money: the balance the venues report after an order
\* sequence is below the capital two legs need.
EnvPoor == [quotes |-> [v \in Venues |-> IF v = "binance" THEN {QuoteLow}
                                         ELSE {QuoteNear, QuoteHigh}],
            balances |-> {150 * PctScale}, failures |-> 0,
            shutdown |-> FALSE, maxOpens |-> MaxOpensPoor, maxSteps |-> MaxStepsPoor,
            maxDirect |-> 0, observe |-> FALSE]
InitPoor == \E cfg \in Configs :
               /\ ~cfg.testMode /\ cfg.maxOpenPositions = 1
               /\ cfg.positionTimeoutSeconds = 0
               /\ cfg.takerBinance > 0 /\ cfg.takerMexc > 0
               /\ DefaultTuning(cfg)
               /\ Start(cfg, EnvPoor)
NextPoor == Tick \/ AdvanceTime \/ SweepTimer \/ Answer \/ Wake
SpecPoor == InitPoor /\ [][NextPoor]_vars

\* Live mode with venues that may fail two remote calls and report differing
\* balances (0 for a venue without funds); one pair is opened and closed.
EnvShaky == [quotes |-> [v \in Venues |-> IF v = "binance" THEN {QuoteLow}
                                          ELSE {QuoteNear, QuoteHigh}],
             balances |-> {0, 300 * PctScale, 400 * PctScale},
             failures |-> MaxFailuresShaky,
             shutdown |-> FALSE, maxOpens |-> MaxOpensShaky,
             maxSteps |-> MaxStepsShaky, maxDirect |-> 0, observe |-> FALSE]
InitShaky == \E cfg \in Configs :
                /\ ~cfg.testMode /\ cfg.maxOpenPositions = 1
                /\ cfg.positionTimeoutSeconds = 0
                /\ cfg.takerBinance > 0 /\ cfg.takerMexc > 0
                /\ DefaultTuning(cfg)
                /\ Start(cfg, EnvShaky)
NextShaky == Tick \/ AdvanceTime \/ SweepTimer \/ Answer \/ Wake
SpecShaky == InitShaky /\ [][NextShaky]_vars

\* Live mode with a position size above the ceiling, with a balance that does
\* or does not cover two legs; every quote on both venues, then Ctrl+C.
EnvCapped == [quotes |-> [v \in Venues |-> Quotes], balances |-> {400 * PctScale},
              failures |-> 0, shutdown |-> TRUE, maxOpens |-> MaxOpensCapped,
              maxSteps |-> MaxStepsCapped, maxDirect |-> 0, observe |-> FALSE]
InitCapped == \E cfg \in Configs :
                 /\ ~cfg.testMode
                 /\ cfg.positionTimeoutSeconds = 1
                 /\ cfg.takerBinance > 0 /\ cfg.takerMexc > 0
                 /\ cfg.positionSizeUSD > SafetyCapUSD
                 /\ cfg.priceConvergencePercent = PctScale \div 2
                 /\ cfg.slippagePercent = PctScale \div 10
                 /\ Start(cfg, EnvCapped)
NextCapped == Tick \/ AdvanceTime \/ SweepTimer \/ Shutdown
SpecCapped == InitCapped /\ [][NextCapped]_vars

\* The program from ArbitrageDetector.start on (simulated mode): venues that
\* do or do not answer the health check and list any part of what they trade;
\* the only symbol both can list is the one the feeds then quote.
BinanceListed == {"BTCUSDT", "ETHUSDT"}
MexcListed == {"BTC_USDT", "SOL_USDT"}
EnvStartup == [quotes |-> [v \in Venues |-> Quotes], balances |-> {0}, failures |-> 0,
               shutdown |-> FALSE, maxOpens |-> MaxOpensStartup,
               maxSteps |-> MaxStepsStartup, maxDirect |-> 0, observe |-> FALSE]
InitStartup ==
  \E cfg \in Configs, binanceOk \in BOOLEAN, mexcOk \in BOOLEAN,
     binancePairs \in SUBSET BinanceListed, mexcPairs \in SUBSET MexcListed,
     excludePairs \in SUBSET Symbols :
       /\ cfg.testMode /\ cfg.maxOpenPositions = 1
       /\ cfg.positionTimeoutSeconds = 1
       /\ cfg.takerBinance > 0 /\ cfg.takerMexc > 0
       /\ DefaultTuning(cfg)
       /\ Constructed(cfg @@ [excludePairs |-> excludePairs],
                      EnvStartup @@ [healthCheck |-> [v \in Venues |->
                                         IF v = "binance" THEN binanceOk ELSE mexcOk],
                                     getTopPairs |-> [v \in Venues |->
                                         IF v = "binance" THEN binancePairs
                                         ELSE mexcPairs]])
       /\ phase = "starting"
NextStartup == checkExchangesHealth \/ fetchTopPairs \/ Tick \/ AdvanceTime \/ SweepTimer
SpecStartup == InitStartup /\ [][NextStartup]_vars

\* Live mode with Ctrl+C and quotes that always cross: pairs are closed by the
\* shutdown sweep only, and ticks go on arriving while the sweep awaits.
EnvHalt == [quotes |-> [v \in Venues |-> IF v = "binance" THEN {QuoteLow}
                                         ELSE {QuoteHigh}],
            balances |-> {400 * PctScale}, failures |-> 0,
            shutdown |-> TRUE, maxOpens |-> MaxOpensHalt, maxSteps |-> MaxStepsHalt,
            maxDirect |-> 0, observe |-> FALSE]
InitHalt == \E cfg \in Configs :
               /\ ~cfg.testMode /\ cfg.maxOpenPositions = 1
               /\ cfg.positionTimeoutSeconds = 0
               /\ cfg.takerBinance > 0 /\ cfg.takerMexc > 0
               /\ DefaultTuning(cfg)
               /\ Start(cfg, EnvHalt)
NextHalt == Tick \/ AdvanceTime \/ SweepTimer \/ Shutdown \/ Answer \/ Wake
SpecHalt == InitHalt /\ [][NextHalt]_vars

\* ------------------------------------------------------------------ claims
Range(seq) == {seq[i] : i \in DOMAIN seq}
Occurrences(seq, x) == Cardinality({i \in DOMAIN seq : seq[i] = x})
\* pnlUSD of a closed pair, from the profit percentage the close stored in it.
PnlUSD(pair) == (pair.actualProfit * (config.positionSizeUSD * 2)) \div 100
RECURSIVE SumPnl(_)
SumPnl(ids) ==
  IF ids = {} THEN 0
  ELSE LET id == CHOOSE x \in ids : TRUE
       IN  PnlUSD(pairs[id]) + SumPnl(ids \ {id})
PositionCost == (config.positionSizeUSD * 2) * PctScale
\* A closed pair whose exit prices are its entry prices.
NoMove(pair) == pair.longExit = pair.longEntry /\ pair.shortExit = pair.shortEntry

\* C1: the open map never holds two pairs of the same symbol.
C1_OnePairPerSymbol ==
  \A a \in openPositions, b \in openPositions :
     pairs[a].symbol = pairs[b].symbol => a = b

\* C2: every pair is appended to the closed history at most once, counted in
\* the trade statistics at most once, and has at most one set of close orders.
C2_ClosedOnce ==
  /\ \A id \in Ids :
        /\ Occurrences(closedPositions, id) <= 1
        /\ orderCalls[id]["CLOSE_LONG"] <= 1
        /\ orderCalls[id]["CLOSE_SHORT"] <= 1
  /\ testStats.totalTrades <= Cardinality(Range(closedPositions))

\* C3: pendingOrders never exceeds 1 (at most one open sequence holds the
\* single-flight guard).
C3_SingleFlight == pendingOrders <= 1

\* The step in which the long-leg order awaited by frame f throws.
LongLegFails(f) ==
  /\ f.kind = "open" /\ f.pc = "longOrder"
  /\ failuresLeft' = failuresLeft - 1
  /\ CopiesIn(f, tasks') = 0

\* C4: in live mode, when the long-leg order of an open sequence fails, the
\* sequence ends there: an OPEN_LONG TradingError is appended, no order call is
\* made, the open map, the pair objects and the balance are unchanged; and a
\* short-leg order is only ever placed by a sequence whose long leg succeeded.
C4_LongLegAbort ==
  [][ /\ \A f \in BagToSet(tasks) :
           LongLegFails(f) =>
             /\ tradingErrors' = Append(tradingErrors,
                    [symbol |-> f.symbol, operation |-> "OPEN_LONG",
                     exchange |-> f.buyExchange])
             /\ orderCalls' = orderCalls
             /\ \A g \in BagToSet(tasks') : g.oid # f.oid
             /\ f.oid \notin DOMAIN pairs'
             /\ UNCHANGED << openPositions, pairs, currentBalance >>
      /\ \A id \in Ids :
           orderCalls'[id]["OPEN_SHORT"] > orderCalls[id]["OPEN_SHORT"] =>
             \E f \in BagToSet(tasks) : f.oid = id /\ f.pc = "legSleep" ]_vars
C4_Witness ==
  /\ ~config.testMode
  /\ \E i \in DOMAIN tradingErrors : tradingErrors[i].operation = "OPEN_LONG"
  /\ "ORDER_CREATION_FAILED" \in skipCalls
  /\ \E id \in Ids : orderCalls[id]["OPEN_LONG"] = 1 /\ orderCalls[id]["OPEN_SHORT"] = 0
                       /\ id \notin DOMAIN pairs
                       /\ \A g \in BagToSet(tasks) : g.oid # id

\* C5: in simulated mode the balance is the initial balance, less
\* 2 * positionSizeUSD for every open pair, plus the pnlUSD of every closed pair.
C5_BalanceLedger ==
  config.testMode =>
    currentBalance = initialBalance - PositionCost * Cardinality(openPositions)
                       + SumPnl(Range(closedPositions))
C5_Witness ==
  /\ config.testMode
  /\ Len(closedPositions) = 1
  /\ Cardinality(openPositions) = 1
  /\ SumPnl(Range(closedPositions)) # 0

\* C6: in simulated mode with both taker fees zero, a pair closed at its entry
\* prices has pnlUSD 0 and leaves the balance where it was before its open: the
\* balance is the initial one, less the cost of the open pairs, plus the pnlUSD
\* of the closed pairs whose prices did move.
C6_NoOpRoundTrip ==
  (config.testMode /\ config.takerBinance = 0 /\ config.takerMexc = 0) =>
    /\ \A id \in Range(closedPositions) : NoMove(pairs[id]) => PnlUSD(pairs[id]) = 0
    /\ currentBalance = initialBalance - PositionCost * Cardinality(openPositions)
           + SumPnl({id \in Range(closedPositions) : ~NoMove(pairs[id])})
C6_Witness ==
  /\ config.testMode /\ config.takerBinance = 0 /\ config.takerMexc = 0
  /\ openPositions = {}
  /\ \E id \in Range(closedPositions) : NoMove(pairs[id])
  /\ currentBalance = initialBalance

\* C7: a closePositionPair call with an id that is not in the open map leaves
\* the open map, the closed history, the pair objects, the balance, the
\* statistics and the error log unchanged, places no order and awaits nothing.
C7_AbsentCloseNoOp ==
  [][ ( /\ Len(directCalls') > Len(directCalls)
        /\ directCalls'[Len(directCalls')] \notin openPositions )
      => UNCHANGED << openPositions, closedPositions, pairs, currentBalance,
                      testStats, tradingErrors, orderCalls, tasks >> ]_vars
\* The same id was passed twice and one set of close orders was placed: one of
\* the calls found the id absent.
C7_Witness ==
  /\ Len(directCalls) = 2
  /\ directCalls[1] = directCalls[2]
  /\ Occurrences(closedPositions, directCalls[1]) = 1
  /\ orderCalls[directCalls[1]]["CLOSE_LONG"] = 1

\* C8: the open map never holds more than maxOpenPositions pairs.
C8_MaxOpenPositions == Cardinality(openPositions) <= config.maxOpenPositions

\* C9: when a timeout sweep has finished, every pair that was in the open map
\* with timeoutAt <= now at its start is out of the open map and in the closed
\* history with closeReason TIMEOUT and status TIMEOUT_CLOSED.
C9_SweepClosesDue ==
  lastSweep.done =>
    \A id \in lastSweep.due :
       /\ id \notin openPositions
       /\ id \in Range(closedPositions)
       /\ pairs[id].closeReason = "TIMEOUT"
       /\ pairs[id].status = "TIMEOUT_CLOSED"

\* C10: every pair in the closed history with closeReason TIMEOUT has
\* closeTime >= timeoutAt.
C10_NoEarlyTimeout ==
  \A id \in Range(closedPositions) :
     pairs[id].closeReason = "TIMEOUT" => pairs[id].closeTime >= pairs[id].timeoutAt
C10_Witness ==
  \E id \in Range(closedPositions) :
     pairs[id].closeReason = "TIMEOUT" /\ pairs[id].closeTime >= pairs[id].timeoutAt


\* C11: with positionTimeoutSeconds = 0 no pair is ever closed with reason
\* TIMEOUT (nor gets status TIMEOUT_CLOSED), and no finished sweep has found a
\* pair due, however many sweeps have run and however long a pair is open.
C11_ZeroTimeoutNeverFires ==
  config.positionTimeoutSeconds = 0 =>
    /\ \A id \in DOMAIN pairs :
          /\ pairs[id].closeReason # "TIMEOUT"
          /\ pairs[id].status # "TIMEOUT_CLOSED"
          /\ pairs[id].timeoutAt > now
    /\ lastSweep.due = {}
\* A pair has been open for three sweep intervals and a sweep has finished.
C11_Witness ==
  /\ config.positionTimeoutSeconds = 0
  /\ lastSweep.done
  /\ \E id \in openPositions :
        /\ pairs[id].status = "OPEN"
        /\ now - pairs[id].openTime >= 3 * SweepIntervalMs


\* The divergence of the two venues' current prices for a symbol is at or
\* below priceConvergencePercent.
Converged(symbol) ==
  LET prices == getCurrentPrices(symbol)
  IN  prices.found /\ checkPriceConvergence(prices.buyPrice, prices.sellPrice)

TickQuote(v) == IF v = lastTick.exchange THEN lastTick.price1 ELSE lastTick.price2
TickSeen == lastTick.exchange \in Venues
\* Venue a's ask is strictly below the other venue's bid.
Crosses(a) ==
  /\ lastTick.price2 # NoPrice
  /\ TickQuote(a).ask < TickQuote(Other(a)).bid
CrossSpread(a) ==
  Pct(TickQuote(Other(a)).bid - TickQuote(a).ask, TickQuote(a).ask)

\* C13: an opportunity is emitted for a tick if and only if one venue's ask is
\* strictly below the other venue's bid and that spread is at or above
\* minSpreadPercent; the emitted object carries that spread, and its
\* profitPercent may be negative.
C13_EmittedIffCrossingSpread ==
  TickSeen =>
    /\ lastTick.emitted <=>
          \E a \in Venues : Crosses(a) /\ CrossSpread(a) >= config.minSpreadPercent
    /\ lastTick.emitted =>
          /\ Crosses(lastTick.opportunity.buyExchange)
          /\ lastTick.opportunity.spreadPercent
                = CrossSpread(lastTick.opportunity.buyExchange)
\* An opportunity with a negative profitPercent has been emitted, and a tick
\* that crosses below the gate has not.
C13_Witness ==
  /\ lastTick.emitted /\ lastTick.opportunity.profitPercent < 0
  /\ lastTick.opportunity.spreadPercent >= config.minSpreadPercent
C13_WitnessBelowGate ==
  /\ TickSeen /\ ~lastTick.emitted
  /\ \E a \in Venues : Crosses(a) /\ CrossSpread(a) < config.minSpreadPercent

\* C14: on every tick where one venue's ask is strictly below the other's
\* bid, the buy side is that venue (the one with the lower ask), the sell side
\* the other (the one with the higher bid), buyPrice is that ask, sellPrice
\* that bid, and spreadPercent = (sellPrice - buyPrice) / buyPrice * 100 > 0.
C14_SidesAndSpread ==
  (TickSeen /\ \E a \in Venues : Crosses(a)) =>
    LET c == lastTick.chosen
    IN  /\ lastTick.updated
        /\ c.buyExchange \in Venues
        /\ c.sellExchange = Other(c.buyExchange)
        /\ Crosses(c.buyExchange)
        /\ TickQuote(c.buyExchange).ask < TickQuote(c.sellExchange).ask
        /\ TickQuote(c.sellExchange).bid > TickQuote(c.buyExchange).bid
        /\ c.buyPrice = TickQuote(c.buyExchange).ask
        /\ c.sellPrice = TickQuote(c.sellExchange).bid
        /\ c.spreadPercent = Pct(c.sellPrice - c.buyPrice, c.buyPrice)
        /\ c.spreadPercent > 0
\* Both directions occur: the ticking venue buys, and the ticking venue sells.
C14_Witness ==
  /\ lastTick.updated /\ lastTick.chosen.buyExchange = lastTick.exchange
  /\ lastTick.chosen.spreadPercent < config.minSpreadPercent
C14_WitnessSell ==
  /\ lastTick.updated /\ lastTick.chosen.sellExchange = lastTick.exchange


Probed == probe # NoProbe
\* Visible depth and requested notional of the probed call, in 1/QtyScale USD.
ProbeDepth == probe.availableQty * probe.basePrice
ProbeRequested == probe.requestedUsd * QtyScale

\* C15: calculateExecutionPrice returns avgPrice = quotedPrice, slippageCost 0
\* and 'Full Fill' whenever visibleQty * quotedPrice >= requestedNotional, and
\* whenever visibleQty is absent and requestedNotional <= 10000.
C15_FullFill ==
  ( /\ Probed
    /\ \/ probe.availableQty # NoQty /\ ProbeDepth >= ProbeRequested
       \/ probe.availableQty = NoQty /\ probe.requestedUsd <= DefaultDepthUSD )
  => probe.result = [avgPrice |-> probe.basePrice, slippageCost |-> 0,
                     details |-> "Full Fill"]


\* quotedPrice * (1 + slippagePercent / 100), to the resolution of prices.
ProbePenalty ==
  (probe.basePrice * (100 * PctScale + config.slippagePercent)) \div (100 * PctScale)
\* Notional-weighted sum of the two tranches (depth at the quoted price, the
\* rest at the penalty price); the blend is this sum over the request.
ProbeBlendSum ==
  ProbeDepth * probe.basePrice + (ProbeRequested - ProbeDepth) * ProbePenalty
ProbePartial ==
  /\ Probed /\ probe.availableQty # NoQty
  /\ 0 < ProbeDepth /\ ProbeDepth < ProbeRequested
  /\ config.slippagePercent > 0

OpenLegPcs == {"levBinance", "levMexc", "longOrder", "legSleep", "shortOrder"}
CloseLegPcs == {"closeLong", "closeSleep", "closeShort", "closeBalB", "closeBalM"}

\* C17: no open sequence is at its remote leg calls while a close sequence is
\* between its first and last remote call.
C17_OpenCloseExcluded ==
  ~ \E f \in BagToSet(tasks), g \in BagToSet(tasks) :
        f.pc \in OpenLegPcs /\ g.pc \in CloseLegPcs


\* Divergence of the two venues' current prices, as updatePositionSpread
\* computes priceDiffPercent from the pair of prices handed to it.
LiveDivergence(symbol) ==
  LET prices == getCurrentPrices(symbol)
  IN  Pct(Abs(prices.buyPrice - prices.sellPrice),
          Min(prices.buyPrice, prices.sellPrice))

\* C18: every tick handled while the counterpart venue's price is known reaches
\* updatePositionSpread, so that afterwards every open pair carries the
\* divergence of the current prices, whether or not either side crosses.
C18_EveryTickPropagates ==
  (TickSeen /\ lastTick.price2 # NoPrice) =>
    \A id \in openPositions :
       pairs[id].status = "OPEN" =>
         /\ lastTick.updated
         /\ pairs[id].priceDiffPercent = LiveDivergence(pairs[id].symbol)


\* The last tick crossed (one venue's ask below the other's bid), and its spread.
TickCrosses == TickSeen /\ \E a \in Venues : Crosses(a)
TickSpread == CrossSpread(CHOOSE a \in Venues : Crosses(a))
\* The step is a tick on which one side crosses.
CrossingTickStep ==
  /\ lastTick' # lastTick \/ priceCache' # priceCache
  /\ TickCrosses'

\* C19: on a crossing tick every pair that was open for the symbol is, after
\* the tick, either closed by convergence or carries the tick's spread and
\* divergence, also when that spread is below minSpreadPercent; and a pair
\* closed by convergence on the tick is out of the open map before the
\* opportunity of the same tick is handled (which then opens a new pair).
C19_UpdateBeforeGate ==
  [][ CrossingTickStep =>
        \A id \in openPositions :
           pairs[id].status = "OPEN" =>
             \/ /\ id \in openPositions'
                /\ pairs'[id].status = "OPEN"
                /\ pairs'[id].currentSpread = TickSpread'
                /\ pairs'[id].priceDiffPercent = TickSpread'
                /\ TickSpread' > config.priceConvergencePercent
             \/ /\ id \notin openPositions'
                /\ pairs'[id].closeReason = "CONVERGENCE"
                /\ TickSpread' <= config.priceConvergencePercent
                /\ lastTick'.emitted =>
                      \E new \in openPositions' : new \notin DOMAIN pairs
    ]_vars
\* An open pair carries the spread of a tick that did not pass the gate.
C19_Witness ==
  /\ TickCrosses /\ ~lastTick.emitted
  /\ \E id \in openPositions :
        /\ pairs[id].status = "OPEN"
        /\ pairs[id].currentSpread = TickSpread
        /\ pairs[id].currentSpread < config.minSpreadPercent
\* A tick has closed a pair by convergence and opened the next one.
C19_WitnessReopen ==
  /\ lastTick.emitted
  /\ Len(closedPositions) = 1
  /\ pairs[closedPositions[1]].closeReason = "CONVERGENCE"
  /\ pairs[closedPositions[1]].closeTime = now
  /\ \E id \in openPositions : pairs[id].openTime = now


\* The step is the failure of the short-leg order of open sequence f.
ShortLegFails(f) ==
  /\ f.kind = "open" /\ f.pc = "shortOrder"
  /\ failuresLeft' = failuresLeft - 1
  /\ CopiesIn(f, tasks') = 0

\* C20: in live mode, when the short-leg order of an open sequence fails after
\* the long leg was placed, an OPEN_SHORT TradingError (of the sell venue) is
\* appended, the open is skipped with ORDER_CREATION_FAILED and ends, no pair
\* is inserted, the balance and the order time are unchanged, the guard is
\* released, and no order is placed then or later for that sequence.
C20_ShortLegAbort ==
  [][ /\ \A f \in BagToSet(tasks) :
           ShortLegFails(f) =>
             /\ orderCalls[f.oid]["OPEN_LONG"] = 1
             /\ tradingErrors' = Append(tradingErrors,
                    [symbol |-> f.symbol, operation |-> "OPEN_SHORT",
                     exchange |-> Other(f.buyExchange)])
             /\ "ORDER_CREATION_FAILED" \in skipCalls'
             /\ orderCalls' = orderCalls
             /\ \A g \in BagToSet(tasks') : g.oid # f.oid
             /\ f.oid \notin DOMAIN pairs'
             /\ pendingOrders' = pendingOrders - 1
             /\ UNCHANGED << openPositions, pairs, closedPositions, currentBalance,
                             lastOrderTime >>
      /\ \A id \in Ids :
           ( \/ orderCalls'[id]["CLOSE_LONG"] > orderCalls[id]["CLOSE_LONG"]
             \/ orderCalls'[id]["CLOSE_SHORT"] > orderCalls[id]["CLOSE_SHORT"] )
             => id \in DOMAIN pairs ]_vars
\* A sequence has ended with its long leg placed, its short leg failed and
\* nothing else ordered.
C20_Witness ==
  /\ ~config.testMode
  /\ \E i \in DOMAIN tradingErrors : tradingErrors[i].operation = "OPEN_SHORT"
  /\ "ORDER_CREATION_FAILED" \in skipCalls
  /\ pendingOrders = 0
  /\ \E id \in Ids :
        /\ orderCalls[id] = [op \in OrderOps |-> IF op \in {"OPEN_LONG", "OPEN_SHORT"}
                                                  THEN 1 ELSE 0]
        /\ id \notin DOMAIN pairs
        /\ \A g \in BagToSet(tasks) : g.oid # id


\* C21: every skip decision taken so far has an entry with its reason in the
\* skipped-opportunity log (what getSkippedOpportunities returns).
C21_SkipsRecorded ==
  \A reason \in skipCalls :
     \E i \in DOMAIN skippedOpportunities : skippedOpportunities[i].reason = reason


\* In this step open sequence k comes to the capital check: it has just got
\* past the guard without a rate-limit sleep, or its rate-limit sleep ends.
AtCapitalCheck(k) ==
  \/ /\ opensStarted < k /\ opensStarted' >= k
     /\ \A g \in BagToSet(tasks') : ~(g.oid = k /\ g.pc = "rateSleep")
  \/ \E f \in BagToSet(tasks) :
        f.oid = k /\ f.pc = "rateSleep" /\ CopiesIn(f, tasks') = 0
\* The step is the last balance answer of a close sequence (which reconciles
\* the balance before the tick that awaited the close goes on).
CloseReconciles ==
  \E g \in BagToSet(tasks) : g.pc = "closeBalM" /\ CopiesIn(g, tasks') = 0

\* C22: when an open sequence finds currentBalance < 2 * positionSizeUSD at
\* the capital check, it ends there: it is skipped with INSUFFICIENT_BALANCE,
\* makes no remote call, inserts nothing, and leaves the open map, the closed
\* history, currentBalance, pendingOrders and lastOrderTime as they were.
C22_CapitalCheckFrame ==
  [][ \A k \in Ids :
        (AtCapitalCheck(k) /\ currentBalance' < PositionCost) =>
          /\ "INSUFFICIENT_BALANCE" \in skipCalls'
          /\ \A g \in BagToSet(tasks') : g.oid # k
          /\ k \notin DOMAIN pairs'
          /\ orderCalls' = orderCalls
          /\ UNCHANGED << openPositions, closedPositions, pendingOrders,
                          lastOrderTime >>
          /\ currentBalance' = currentBalance \/ CloseReconciles ]_vars
\* An open has been turned away at the capital check after its rate-limit
\* sleep, with the balance a venue reported after an earlier open.
C22_Witness ==
  /\ "INSUFFICIENT_BALANCE" \in skipCalls
  /\ currentBalance < PositionCost
  /\ lastOrderTime > 0
  /\ opensStarted = 2 /\ DOMAIN pairs = {1}
  /\ \A g \in BagToSet(tasks) : g.oid # 2
  /\ pendingOrders = 0


\* The open sequences between their pendingOrders++ and their release.
GuardHolders == {f \in BagToSet(tasks) : f.kind = "open" /\ f.pc \in OpenLegPcs}

\* C23: pendingOrders is never negative and counts exactly the open sequences
\* between their increment and their return; in particular it is 0 whenever
\* there is none, whichever way the earlier sequences ended.
C23_GuardReleased ==
  /\ pendingOrders >= 0
  /\ pendingOrders = Cardinality(GuardHolders)
  /\ \A f \in GuardHolders : CopiesIn(f, tasks) = 1
\* After an open that failed at a leg the guard is free, and a later open has
\* got through and inserted its pair.
C23_Witness ==
  /\ "ORDER_CREATION_FAILED" \in skipCalls
  /\ pendingOrders = 0 /\ GuardHolders = {}
  /\ DOMAIN pairs = {2}


\* The onPriceUpdate handlers suspended inside updatePositionSpread (in a
\* close it awaits).
SuspendedTicks == {f \in BagToSet(tasks) : f.kind = "tick"}

\* C24: while an onPriceUpdate handler is suspended inside updatePositionSpread
\* or a close it awaits, no further tick is taken up (no venue price is cached
\* and handed to a new handler), and never are two handlers suspended.
C24_TicksSerialized ==
  [][ /\ SuspendedTicks # {} => priceCache' = priceCache
      /\ Cardinality(SuspendedTicks') <= 1 ]_vars


\* In this step open sequence k places its first order.
PlacesFirstOrder(k) == orderCalls'[k]["OPEN_LONG"] > orderCalls[k]["OPEN_LONG"]

\* C25: when an open sequence places its first order, at least
\* MIN_ORDER_INTERVAL_MS have passed since the orders of every earlier close
\* sequence (which are placed at or after the pair's closeTime) and since the
\* last order time the executor has noted.
C25_OrderSpacing ==
  [][ \A k \in Ids :
        PlacesFirstOrder(k) =>
          /\ lastOrderTime > 0 => now' - lastOrderTime >= MIN_ORDER_INTERVAL_MS
          /\ \A id \in DOMAIN pairs :
                orderCalls[id]["CLOSE_LONG"] > 0
                  => now' - pairs[id].closeTime >= MIN_ORDER_INTERVAL_MS ]_vars


\* C26: when the shutdown sweep has finished, every pair of its snapshot of
\* the open map whose price the getter returns is out of the map and in the
\* closed history with closeReason FORCE_SHUTDOWN and status CLOSED; a pair
\* of the snapshot without a price is still in the map.
PriceAvailable(id) == getCurrentPrices(pairs[id].symbol).found
ForceClosed(id) ==
  /\ id \notin openPositions
  /\ \E i \in DOMAIN closedPositions : closedPositions[i] = id
  /\ pairs[id].closeReason = "FORCE_SHUTDOWN"
  /\ pairs[id].status = "CLOSED"
C26_ShutdownSweepCloses ==
  reportOpen.taken =>
    \A id \in reportOpen.snapshot :
       IF PriceAvailable(id) THEN ForceClosed(id) ELSE id \in openPositions


\* The step is the answer (a failure if `failed`) to the remote call that open
\* sequence f awaits at pc.
OpenAnswered(f, pc, failed) ==
  /\ f.kind = "open" /\ f.pc = pc
  /\ failuresLeft' = failuresLeft - (IF failed THEN 1 ELSE 0)
  /\ CopiesIn(f, tasks') = CopiesIn(f, tasks) - 1
LeverageError(f, exchange) ==
  [symbol |-> f.symbol, operation |-> "SET_LEVERAGE", exchange |-> exchange]
LeverageFailedFor(f) ==
  \E i \in DOMAIN tradingErrors :
     tradingErrors[i].operation = "SET_LEVERAGE" /\ tradingErrors[i].symbol = f.symbol

\* C27: in live mode a failed setLeverage of an open appends a SET_LEVERAGE
\* TradingError of that venue and nothing else: after the Binance failure the
\* sequence goes on to the MEXC leverage call, after the MEXC failure it places
\* the long-leg order, and after a long-leg success it goes on to the pause and
\* the short-leg order; the guard stays held and nothing is skipped.
C27_LeverageNonFatal ==
  [][ \A f \in BagToSet(tasks) :
        /\ OpenAnswered(f, "levBinance", TRUE) =>
             /\ tradingErrors' = Append(tradingErrors, LeverageError(f, "binance"))
             /\ CopiesIn([f EXCEPT !.pc = "levMexc"], tasks') > 0
             /\ UNCHANGED << orderCalls, pendingOrders, skipCalls,
                             skippedOpportunities, openPositions >>
        /\ OpenAnswered(f, "levMexc", TRUE) =>
             /\ tradingErrors' = Append(tradingErrors, LeverageError(f, "mexc"))
             /\ orderCalls'[f.oid]["OPEN_LONG"] = orderCalls[f.oid]["OPEN_LONG"] + 1
             /\ CopiesIn([f EXCEPT !.pc = "longOrder"], tasks') > 0
             /\ UNCHANGED << pendingOrders, skipCalls, skippedOpportunities,
                             openPositions >>
        /\ (LeverageFailedFor(f) /\ OpenAnswered(f, "longOrder", FALSE)) =>
             \E g \in BagToSet(tasks') : g.oid = f.oid /\ g.pc = "legSleep"
        /\ (LeverageFailedFor(f) /\ f.kind = "open" /\ f.pc = "legSleep"
              /\ CopiesIn(f, tasks') = CopiesIn(f, tasks) - 1) =>
             orderCalls'[f.oid]["OPEN_SHORT"] = orderCalls[f.oid]["OPEN_SHORT"] + 1
    ]_vars
\* A pair whose open lost a setLeverage call is in the map with both legs
\* ordered.
C27_Witness ==
  /\ ~config.testMode
  /\ \E i \in DOMAIN tradingErrors : tradingErrors[i].operation = "SET_LEVERAGE"
  /\ \E id \in openPositions :
        orderCalls[id]["OPEN_LONG"] = 1 /\ orderCalls[id]["OPEN_SHORT"] = 1
C27_WitnessMexc ==
  /\ \E i \in DOMAIN tradingErrors :
        tradingErrors[i] = [symbol |-> "BTCUSDT", operation |-> "SET_LEVERAGE",
                            exchange |-> "mexc"]
  /\ \E id \in Ids : orderCalls[id]["OPEN_LONG"] = 1


\* The step is the answer (a failure if `failed`) to the remote call that the
\* close run by frame f awaits at pc.
CloseAnswered(f, pc, failed) ==
  /\ f.pc = pc
  /\ failuresLeft' = failuresLeft - (IF failed THEN 1 ELSE 0)
  /\ CopiesIn(f, tasks') = CopiesIn(f, tasks) - 1
CloseLegError(f, operation, exchange) ==
  [symbol |-> pairs[f.pairId].symbol, operation |-> operation, exchange |-> exchange]

\* C28: in live mode a failed close-long order appends a CLOSE_LONG
\* TradingError and the close goes on to its pause; after the pause the
\* close-short order is placed; a failed close-short order appends a
\* CLOSE_SHORT TradingError; and whether the legs failed or not, the answer to
\* the close-short order removes the pair from the open map and appends it to
\* the closed history.
C28_CloseLegFailureNonBlocking ==
  [][ \A f \in BagToSet(tasks) :
        /\ CloseAnswered(f, "closeLong", TRUE) =>
             /\ tradingErrors' = Append(tradingErrors,
                    CloseLegError(f, "CLOSE_LONG", pairs[f.pairId].longExchange))
             /\ \E g \in BagToSet(tasks') :
                   g.pairId = f.pairId /\ g.pc = "closeSleep" /\ g.kind = f.kind
        /\ (f.pc = "closeSleep" /\ CopiesIn(f, tasks') = CopiesIn(f, tasks) - 1) =>
             /\ orderCalls'[f.pairId]["CLOSE_SHORT"]
                  = orderCalls[f.pairId]["CLOSE_SHORT"] + 1
             /\ \E g \in BagToSet(tasks') : g.pairId = f.pairId /\ g.pc = "closeShort"
        /\ CloseAnswered(f, "closeShort", TRUE) =>
             tradingErrors' = Append(tradingErrors,
                 CloseLegError(f, "CLOSE_SHORT", pairs[f.pairId].shortExchange))
        /\ \A failed \in BOOLEAN :
             (CloseAnswered(f, "closeShort", failed) /\ f.pairId \in openPositions) =>
               /\ openPositions' = openPositions \ {f.pairId}
               /\ closedPositions' = Append(closedPositions, f.pairId)
    ]_vars
\* Both close legs of a pair have failed and the pair is in the closed history.
C28_Witness ==
  /\ ~config.testMode
  /\ \E i, j \in DOMAIN tradingErrors :
        /\ tradingErrors[i].operation = "CLOSE_LONG"
        /\ tradingErrors[j].operation = "CLOSE_SHORT"
  /\ \E id \in Range(closedPositions) :
        /\ id \notin openPositions
        /\ orderCalls[id]["CLOSE_LONG"] = 1 /\ orderCalls[id]["CLOSE_SHORT"] = 1


\* The step is the answer (a failure if `failed`) to the getBalance call that
\* sequence f awaits at pc.
BalanceAnswered(f, pc, failed) ==
  /\ f.pc = pc
  /\ failuresLeft' = failuresLeft - (IF failed THEN 1 ELSE 0)
  /\ CopiesIn(f, tasks') = CopiesIn(f, tasks) - 1
\* What a getBalance call can deliver: 0 stands for a failed fetch.
Fetched(failed) == IF failed THEN {0} ELSE env.balances
BalanceSymbol(f) == IF f.kind = "open" THEN f.symbol ELSE pairs[f.pairId].symbol
BalanceError(f, exchange) ==
  [symbol |-> BalanceSymbol(f), operation |-> "GET_BALANCE", exchange |-> exchange]
Reconciled(previous, binanceBalance, mexcBalance) ==
  IF binanceBalance > 0 /\ mexcBalance > 0
    THEN (IF binanceBalance < mexcBalance THEN binanceBalance ELSE mexcBalance)
  ELSE IF binanceBalance > 0 THEN binanceBalance
  ELSE IF mexcBalance > 0 THEN mexcBalance
  ELSE previous

\* C29: in live mode the Binance balance fetch of an open or a close leaves
\* currentBalance alone and hands its result (0 after a failure) to the MEXC
\* fetch; the answer to the MEXC fetch sets currentBalance to the minimum of
\* the two fetched balances if both are positive, to the positive one if one
\* is, and leaves it unchanged otherwise; a failed fetch appends a GET_BALANCE
\* TradingError of its venue and the sequence goes on.
C29_BalanceReconciled ==
  [][ \A f \in BagToSet(tasks) : \A failed \in BOOLEAN :
        /\ (f.pc \in {"balBinance", "closeBalB"} /\ BalanceAnswered(f, f.pc, failed)) =>
             /\ currentBalance' = currentBalance
             /\ failed => tradingErrors' = Append(tradingErrors, BalanceError(f, "binance"))
             /\ ~failed => tradingErrors' = tradingErrors
             /\ \E got \in Fetched(failed) :
                   CopiesIn([f EXCEPT !.pc = IF f.pc = "balBinance" THEN "balMexc"
                                              ELSE "closeBalM",
                                      !.balB = got], tasks') > 0
        /\ (f.pc \in {"balMexc", "closeBalM"} /\ BalanceAnswered(f, f.pc, failed)) =>
             /\ failed => tradingErrors' = Append(tradingErrors, BalanceError(f, "mexc"))
             /\ ~failed => tradingErrors' = tradingErrors
             /\ \E got \in Fetched(failed) :
                   currentBalance' = Reconciled(currentBalance, f.balB, got)
             /\ f.pc = "closeBalM" =>
                   testStats'.totalTrades = testStats.totalTrades + 1
    ]_vars
\* An open has ended with both venues answering and the balance at the lower
\* of the two answers.
C29_Witness ==
  /\ ~config.testMode
  /\ openPositions # {}
  /\ tasks = EmptyBag
  /\ tradingErrors = << >>
  /\ currentBalance = 300 * PctScale
\* Both fetches of an open have failed and the balance is what it was.
C29_WitnessUnchanged ==
  /\ openPositions # {}
  /\ tasks = EmptyBag
  /\ Len(tradingErrors) = 2
  /\ \A i \in DOMAIN tradingErrors : tradingErrors[i].operation = "GET_BALANCE"
  /\ currentBalance = initialBalance


\* The step calls openPositionPair past its single-flight guard.
OpenCalled == opensStarted' = opensStarted + 1
\* The step makes no remote call, inserts no pair and leaves the guard free.
NothingSent ==
  /\ tasks' = EmptyBag
  /\ orderCalls' = orderCalls
  /\ \A k \in Ids : \A op \in OrderOps : orderCalls'[k][op] = 0
  /\ pairs' = pairs /\ DOMAIN pairs' = {}
  /\ openPositions' = {} /\ closedPositions' = << >>
  /\ inserted' = inserted
  /\ tradingErrors' = << >>
  /\ pendingOrders' = 0
  /\ currentBalance' = currentBalance
CoversTwoLegs == currentBalance >= (config.positionSizeUSD * 2) * PctScale

\* C30 as stated: in live mode with positionSizeUSD above the cap, every call
\* of openPositionPair makes no remote call, inserts no pair and is skipped
\* with POSITION_SIZE_TOO_LARGE.
C30_EveryOpenTooLarge ==
  [][ (~config.testMode /\ config.positionSizeUSD > SafetyCapUSD /\ OpenCalled) =>
        /\ NothingSent
        /\ "POSITION_SIZE_TOO_LARGE" \in skipCalls' ]_vars

\* C30 amended: in live mode with positionSizeUSD above the cap, every call of
\* openPositionPair makes no remote call and inserts no pair; it is skipped
\* with POSITION_SIZE_TOO_LARGE if currentBalance covers two legs, and with
\* INSUFFICIENT_BALANCE (the check that comes first) if it does not.
C30_CappedOpenSkipped ==
  [][ (~config.testMode /\ config.positionSizeUSD > SafetyCapUSD /\ OpenCalled) =>
        /\ NothingSent
        /\ CoversTwoLegs => skipCalls' = {"POSITION_SIZE_TOO_LARGE"}
        /\ ~CoversTwoLegs => skipCalls' = {"INSUFFICIENT_BALANCE"} ]_vars
\* Two opens have been refused for their size, and nothing was sent.
C30_Witness ==
  /\ ~config.testMode /\ config.positionSizeUSD > SafetyCapUSD
  /\ opensStarted >= 2
  /\ skipCalls = {"POSITION_SIZE_TOO_LARGE"}
  /\ tasks = EmptyBag /\ DOMAIN pairs = {} /\ pendingOrders = 0
C30_WitnessPoor ==
  /\ config.positionSizeUSD > SafetyCapUSD
  /\ opensStarted >= 1
  /\ skipCalls = {"INSUFFICIENT_BALANCE"}


\* C31: a pair that closePositionPair has marked has status TIMEOUT_CLOSED if
\* and only if its close reason is TIMEOUT, and status CLOSED for the reasons
\* CONVERGENCE, MANUAL and FORCE_SHUTDOWN; a pair not yet marked is OPEN; the
\* status CLOSED_BY_CONVERGENCE is never assigned.
C31_StatusByReason ==
  \A id \in DOMAIN pairs :
     /\ pairs[id].status \in {"OPEN", "CLOSED", "TIMEOUT_CLOSED"}
     /\ pairs[id].closeReason \in CloseReasons \cup {"NONE"}
     /\ pairs[id].closeReason = "NONE" <=> pairs[id].status = "OPEN"
     /\ pairs[id].closeReason = "TIMEOUT" <=> pairs[id].status = "TIMEOUT_CLOSED"
     /\ pairs[id].closeReason \in {"CONVERGENCE", "MANUAL", "FORCE_SHUTDOWN"}
          <=> pairs[id].status = "CLOSED"
\* A pair closed with reason MANUAL is in the closed history.
C31_Witness ==
  \E id \in Range(closedPositions) :
     pairs[id].closeReason = "MANUAL" /\ pairs[id].status = "CLOSED"
C31_WitnessTimeout ==
  \E id \in Range(closedPositions) :
     pairs[id].closeReason = "TIMEOUT" /\ pairs[id].status = "TIMEOUT_CLOSED"


\* The percentages of the two legs of a closed pair, from the entry and exit
\* prices stored in it, and the round-trip fees.
LongLegPercent(pair) == ((pair.longExit - pair.longEntry) * 100 * PctScale) \div pair.longEntry
ShortLegPercent(pair) ==
  ((pair.shortEntry - pair.shortExit) * 100 * PctScale) \div pair.shortEntry
RoundTripFees == 2 * (config.takerBinance + config.takerMexc)
NetProfit == testStats.totalProfit - testStats.totalLoss
\* The step closes exactly the pair id.
ClosesOne(id) ==
  /\ closedPositions' = Append(closedPositions, id)
  /\ testStats'.totalTrades = testStats.totalTrades + 1

\* C32: the PnL percent stored at a close is the simple average of the long-leg
\* percent and the short-leg percent minus twice the sum of the two taker fees,
\* and the dollar PnL the close books (in the statistics and, in simulated
\* mode, on the balance) is that percent / 100 applied to 2 * positionSizeUSD.
C32_ClosePnl ==
  [][ \A id \in DOMAIN pairs' :
        /\ pairs'[id].status # "OPEN" =>
             pairs'[id].actualProfit
               = ((LongLegPercent(pairs'[id]) + ShortLegPercent(pairs'[id])) \div 2)
                   - RoundTripFees
        /\ ClosesOne(id) =>
             /\ NetProfit' - NetProfit
                  = (pairs'[id].actualProfit * (2 * config.positionSizeUSD)) \div 100
             /\ config.testMode =>
                  currentBalance' - currentBalance
                    = (2 * config.positionSizeUSD) * PctScale
                        + (pairs'[id].actualProfit * (2 * config.positionSizeUSD)) \div 100
    ]_vars
\* A pair closed at a loss on one leg and a gain on the other, fees charged.
C32_Witness ==
  /\ RoundTripFees > 0
  /\ \E id \in Range(closedPositions) :
        /\ LongLegPercent(pairs[id]) # 0 /\ ShortLegPercent(pairs[id]) # 0
        /\ LongLegPercent(pairs[id]) # ShortLegPercent(pairs[id])
        /\ pairs[id].actualProfit
             = ((LongLegPercent(pairs[id]) + ShortLegPercent(pairs[id])) \div 2)
                 - RoundTripFees
        /\ NetProfit = (pairs[id].actualProfit * (2 * config.positionSizeUSD)) \div 100


\* The startup is fatal: a venue fails its health check, or no common symbol
\* is left after the exclusions.
FatalStartup ==
  \/ ~env.healthCheck["binance"] \/ ~env.healthCheck["mexc"]
  \/ CommonSymbols = {}
\* Nothing has run yet: no tick was processed, no timer fired, no open started.
Untouched ==
  /\ \A v \in Venues : \A vs \in DOMAIN priceCache[v] : priceCache[v][vs] = NoPrice
  /\ ~sweepDue /\ ~lastSweep.done
  /\ DOMAIN pairs = {} /\ openPositions = {} /\ closedPositions = << >>
  /\ opensStarted = 0 /\ inserted = 0 /\ skipCalls = {}
  /\ tasks = EmptyBag
  /\ currentBalance = initialBalance

\* C33: on a fatal startup condition ArbitrageDetector.start never gets to the
\* running state; until start has succeeded no timer is started and no feed is
\* subscribed, so no tick is processed and no position opened; and a failed
\* start stays failed.
C33_FatalStartupAborts ==
  [][ /\ FatalStartup => phase' \in {"starting", "fetching", "failed"}
      /\ phase' \in {"starting", "fetching", "failed"} => Untouched'
      /\ phase = "failed" => phase' = "failed" ]_vars
\* Time has passed after a start that failed for lack of a common symbol.
C33_Witness ==
  /\ phase = "failed"
  /\ env.healthCheck["binance"] /\ env.healthCheck["mexc"]
  /\ env.getTopPairs["binance"] # {} /\ env.getTopPairs["mexc"] # {}
  /\ now > StartTime
C33_WitnessHealth ==
  /\ phase = "failed" /\ ~env.healthCheck["mexc"] /\ CommonSymbols # {}
  /\ now > StartTime
C33_WitnessStarted == phase = "running" /\ openPositions # {}


\* C34: in every reachable state totalTrades = profitableTrades + losingTrades
\* = the length of the closed history, and netProfit (totalProfit - totalLoss)
\* is the sum of pnlUSD over the closed pairs (a close with pnlUSD 0 counting
\* as a losing trade, with loss 0).
C34_StatsMatchHistory ==
  /\ testStats.totalTrades = testStats.profitableTrades + testStats.losingTrades
  /\ testStats.totalTrades = Len(closedPositions)
  /\ NetProfit = SumPnl(Range(closedPositions))
  /\ testStats.losingTrades
       = Cardinality({i \in DOMAIN closedPositions :
                         PnlUSD(pairs[closedPositions[i]]) <= 0})


\* C35: in every state another handler can observe, every pair in the open map
\* has status OPEN and no closeReason, every pair in the closed history has
\* status CLOSED or TIMEOUT_CLOSED with closeReason, closeTime and both exit
\* prices set, and no pair is in both collections.
C35_CollectionsMatchStatus ==
  /\ \A id \in openPositions :
        pairs[id].status = "OPEN" /\ pairs[id].closeReason = "NONE"
  /\ \A id \in Range(closedPositions) :
        /\ pairs[id].status \in {"CLOSED", "TIMEOUT_CLOSED"}
        /\ pairs[id].closeReason \in CloseReasons
        /\ pairs[id].closeTime > 0
        /\ pairs[id].longExit > 0 /\ pairs[id].shortExit > 0
  /\ openPositions \cap Range(closedPositions) = {}


\* The prices venue v quotes for the symbol of a pair after the step.
QuotedBy(v, sym) ==
  LET quote == priceCache'[v][VenueSymbol(v, sym)]
  IN  IF quote = NoPrice THEN {} ELSE {quote.bid, quote.ask}
\* The step is the one in which closePositionPair marks pair id.
CloseMarked(id) ==
  /\ id \in DOMAIN pairs /\ pairs[id].status = "OPEN"
  /\ pairs'[id].status # "OPEN"

\* C36: at every close the exit price recorded for the long leg is a current
\* price of the long leg's venue and the exit price recorded for the short leg
\* is a current price of the short leg's venue.
C36_ExitPricesOwnVenue ==
  [][ \A id \in DOMAIN pairs :
        CloseMarked(id) =>
          /\ pairs'[id].longExit \in QuotedBy(pairs[id].longExchange, pairs[id].symbol)
          /\ pairs'[id].shortExit \in QuotedBy(pairs[id].shortExchange, pairs[id].symbol)
    ]_vars


\* C37: when the shutdown sweep has finished and the report is taken (prices
\* being known for every symbol), the open map is empty.
C37_NothingOpenAtReport ==
  (reportOpen.taken /\ \A sym \in Symbols : getCurrentPrices(sym).found)
    => reportOpen.open = {}


\* ---------------------------------------------------------------------------
\* The WebSocket side of the venue clients (BinanceFutures, MexcFutures).
\* ---------------------------------------------------------------------------
\* connectWebSocket(symbols, onPriceUpdate) on a client in state c: nothing
\* when the client holds a socket, else a new socket that is connecting.
connectWebSocket(c) ==
  IF c.ws # NoSocket THEN c
  ELSE [c EXCEPT !.sockets = Append(@, "connecting"), !.ws = Len(c.sockets) + 1]

\* cleanup(): the client holds no socket (the ping interval is left out).
cleanup(c) == [c EXCEPT !.ws = NoSocket]

\* disconnect() on a client in state c: close() on the socket held, then
\* cleanup(); nothing when no socket is held.
disconnect(c) ==
  IF c.ws = NoSocket THEN c
  ELSE cleanup([c EXCEPT !.sockets[c.ws] = "closing"])

\* The handlers registered on a socket outlive the client's hold on it.
Live(st) == st \in {"connecting", "open", "closing"}

\* The application calls connectWebSocket on the client of venue v.
AppConnect(v) ==
  /\ Len(clients[v].sockets) < MaxSockets
  /\ clients' = [clients EXCEPT ![v] =
                   [connectWebSocket(@) EXCEPT !.disconnected = FALSE,
                                               !.reopened = FALSE,
                                               !.delivered = FALSE]]
  /\ Apply(St)
  /\ UNCHANGED << config, env, now, priceCache, initialBalance, sweepDue,
                  directCalls, probe >>

\* The application calls disconnect on the client of venue v.
AppDisconnect(v) ==
  /\ clients' = [clients EXCEPT ![v] =
                   [disconnect(@) EXCEPT !.disconnected = TRUE,
                                         !.reopened = FALSE,
                                         !.delivered = FALSE]]
  /\ Apply(St)
  /\ UNCHANGED << config, env, now, priceCache, initialBalance, sweepDue,
                  directCalls, probe >>

\* The 'open' event of socket id of venue v.
SocketOpen(v, id) ==
  /\ clients[v].sockets[id] = "connecting"
  /\ clients' = [clients EXCEPT ![v].sockets[id] = "open"]
  /\ Apply(St)
  /\ UNCHANGED << config, env, now, priceCache, initialBalance, sweepDue,
                  directCalls, probe >>

\* The 'message' event of socket id of venue v: the price is cached and handed
\* to the callback given to connectWebSocket.
SocketMessage(v, id, symbol, quote) ==
  /\ clients[v].sockets[id] = "open"
  /\ Deliver(v, symbol, quote)
  /\ clients' = [clients EXCEPT ![v].delivered = TRUE]

\* The 'close' event of socket id of venue v, whoever closed it: cleanup(),
\* then the reconnect timeout is set.
SocketClose(v, id) ==
  /\ Live(clients[v].sockets[id])
  /\ clients' = [clients EXCEPT ![v] =
                   [cleanup([@ EXCEPT !.sockets[id] = "closed"])
                      EXCEPT !.timers = @ + 1]]
  /\ Apply(St)
  /\ UNCHANGED << config, env, now, priceCache, initialBalance, sweepDue,
                  directCalls, probe >>

\* A reconnect timeout of venue v fires after reconnectDelay: it calls
\* connectWebSocket with the symbols and the callback of the closed socket.
ReconnectTimer(v) ==
  /\ clients[v].timers > 0
  /\ clients[v].ws = NoSocket => Len(clients[v].sockets) < MaxSockets
  /\ clients' = [clients EXCEPT ![v] =
                   [connectWebSocket(@) EXCEPT
                      !.timers = @ - 1,
                      !.reopened = @ \/ clients[v].ws = NoSocket]]
  /\ Apply(St)
  /\ UNCHANGED << config, env, now, priceCache, initialBalance, sweepDue,
                  directCalls, probe >>

Connect == \E v \in Venues : AppConnect(v)
Disconnect == \E v \in Venues : AppDisconnect(v)
Opened == \E v \in Venues : \E id \in DOMAIN clients[v].sockets : SocketOpen(v, id)
Message == \E v \in Venues, symbol \in Symbols :
              \E id \in DOMAIN clients[v].sockets, quote \in env.quotes[v] :
                 SocketMessage(v, id, symbol, quote)
Closed == \E v \in Venues : \E id \in DOMAIN clients[v].sockets : SocketClose(v, id)
Reconnect == \E v \in Venues : ReconnectTimer(v)

EnvClient == [quotes |-> [v \in Venues |-> IF v = "binance" THEN {QuoteLow}
                                           ELSE {QuoteHigh}],
              balances |-> {0}, failures |-> 0,
              shutdown |-> FALSE, maxOpens |-> MaxOpensClient,
              maxSteps |-> MaxStepsClient, maxDirect |-> 0, observe |-> FALSE]
InitClient == \E cfg \in Configs :
                 /\ cfg.testMode /\ cfg.maxOpenPositions = 1
                 /\ cfg.positionTimeoutSeconds = 1
                 /\ cfg.takerBinance > 0 /\ cfg.takerMexc > 0
                 /\ DefaultTuning(cfg)
                 /\ Start(cfg, EnvClient)
NextClient == Connect \/ Disconnect \/ Opened \/ Message \/ Closed \/ Reconnect
                \/ AdvanceTime \/ SweepTimer
SpecClient == InitClient /\ [][NextClient]_vars

\* C38: once the application has called disconnect() on a venue client, and
\* until it calls connectWebSocket on it again, the client creates no socket
\* and hands no price to the handler.
C38_DisconnectIsFinal ==
  \A v \in Venues : clients[v].disconnected =>
      ~clients[v].reopened /\ ~clients[v].delivered


\* ---------------------------------------------------------------------------
\* Simulated mode with quotes that carry depth, and a slippage of 10 %.
\* ---------------------------------------------------------------------------
EnvDepth == [quotes |-> [v \in Venues |-> IF v = "binance" THEN {QuoteLow, QuoteNear}
                                          ELSE {QuoteThin, QuoteDeep, QuoteNear}],
             balances |-> {0}, failures |-> 0,
             shutdown |-> FALSE, maxOpens |-> MaxOpensDepth,
             maxSteps |-> MaxStepsDepth, maxDirect |-> 0, observe |-> FALSE]
InitDepth == \E cfg \in Configs :
                /\ cfg.testMode /\ cfg.maxOpenPositions = 1
                /\ cfg.positionTimeoutSeconds = 1
                /\ cfg.takerBinance > 0 /\ cfg.takerMexc > 0
                /\ cfg.positionSizeUSD = 100
                /\ cfg.testBalanceUSD = 500 * PctScale
                /\ cfg.priceConvergencePercent = PctScale \div 2
                /\ cfg.slippagePercent = 10 * PctScale
                /\ Start(cfg, EnvDepth)
NextDepth == Tick \/ AdvanceTime \/ SweepTimer
SpecDepth == InitDepth /\ [][NextDepth]_vars

\* The price the scanner quoted for the short leg of a pair.
ShortQuoted(pair) ==
  IF pair.shortExchange = "binance" THEN pair.originalBinancePrice
  ELSE pair.originalMexcPrice
\* The short leg was filled at another price than the quoted one.
ShortSlipped(pair) == pair.shortEntry # ShortQuoted(pair)
\* The pair as a full fill of its short leg would have made it.
ShortFilled(pair) == [pair EXCEPT !.shortEntry = ShortQuoted(pair)]

\* C39: a closed pair whose short leg was filled partially at open has no
\* higher PnL percent than the same pair, closed at the same exit prices, would
\* have with its short leg filled at the quoted price.
C39_SlippageNeverGain ==
  \A id \in DOMAIN pairs :
     (pairs[id].closeReason # "NONE" /\ ShortSlipped(pairs[id])) =>
        pairs[id].actualProfit
          <= ClosePnl(ShortFilled(pairs[id]), pairs[id].longExit,
                      pairs[id].shortExit).totalPnlPercent


\* An update of the scanner has reached the pair: updatePositionSpread has
\* written the prices of a tick into it.
Updated(pair) == pair.currentLongPrice # 0

C40_WitnessClosed ==
  \E id \in DOMAIN pairs :
     /\ Updated(pairs[id]) /\ pairs[id].closeReason = "CONVERGENCE"
     /\ pairs[id].currentSpread > 0

====
